---------------------------- MODULE Spec2Model ----------------------------
(***************************************************************************)
(* A model of the content filter (src/content_filter.py) and of the        *)
(* navigation extractor (src/enhanced_navigation_extractor.py) of          *)
(* spider_craw.                                                            *)
(*                                                                         *)
(* A string is a sequence of pieces.  In page texts, keywords and link     *)
(* texts a piece is one character, so that substring search, case folding, *)
(* stripping and concatenation are computed, not assumed.  A piece written *)
(* "xN" is a run of N letters x (PieceLen gives N): it lets a text reach   *)
(* the 100 and 200 character thresholds.  In URLs a piece is a run of      *)
(* characters that no search of the program cuts: a scheme, "://", a host, *)
(* "/", a path word, an extension such as ".js".                           *)
(*                                                                         *)
(* Each specification below models one entry point; the variables of the   *)
(* other entry points keep their idle values.                              *)
(***************************************************************************)
EXTENDS Integers, Sequences, FiniteSets, TLC

VARIABLES
    pc,                   \* the step the modelled call has reached
    links,                \* _deduplicate_links: the list handed in
    unique_links,         \* _deduplicate_links: the list returned
    navigation_structure, \* _build_navigation_structure: the list returned
    content_filter,       \* the ContentFilter object (self)
    text_content,         \* filter_text: the text handed in
    filtered_text,        \* filter_text: the text returned
    extractor,            \* the EnhancedNavigationExtractor object (self)
    html_content,         \* extract_navigation_from_html: the page handed in
    page_url,             \* extract_navigation_from_html: the page's URL
    navigation_data,      \* extract_navigation_from_html: the dictionary returned
    crawl_results,        \* enhance_navigation_extraction: the list handed in
    enhanced_results,     \* enhance_navigation_extraction: the dictionary returned
    decomposed,           \* filter_html: what the installed bs4 does with a decomposed node
    soup,                 \* filter_html: the tree as the two passes leave it
    removed_count,        \* filter_html: the count it logs
    filtered_html,        \* filter_html: the string returned
    refiltered,           \* filter_html called again on filtered_html: what it leaves
    calls,                \* the calls of the threads that share content_filter and extractor
    crawler,              \* the WebsiteCrawler object (self)
    urls,                 \* WebsiteCrawler.crawl_all_content: the list handed in
    batch_size,           \* WebsiteCrawler.crawl_all_content: the batch size handed in
    engine,               \* what the crawling engine answers for each URL
    batch_start,          \* WebsiteCrawler.crawl_all_content: the loop variable i
    batch_results,        \* WebsiteCrawler.crawl_all_content: the results still to process
    successful_crawls,    \* WebsiteCrawler.crawl_all_content: its counter
    failed_crawls,        \* WebsiteCrawler.crawl_all_content: its counter
    enhanced_navigation_file, \* what _process_enhanced_navigation wrote
    tasks,                \* web/server.py: the table of tasks
    task_queue,           \* web/server.py: the queue of the worker thread
    worker,               \* web/server.py: the worker thread
    requests,             \* web/server.py: the calls of start_crawl
    task,                 \* web/server.py: the CrawlerTask object (self) of run
    submitted,            \* history: the task ids in the order of task_queue.put
    executed              \* history: the task ids in the order the worker ran them

dedupeVars == <<links, unique_links, navigation_structure>>

textVars == <<text_content, filtered_text>>

pageVars == <<extractor, html_content, page_url, navigation_data>>

siteVars == <<crawl_results, enhanced_results>>

htmlVars == <<decomposed, soup, removed_count, filtered_html, refiltered>>

sharedVars == <<calls>>

crawlVars == <<crawler, urls, batch_size, engine, batch_start, batch_results,
               successful_crawls, failed_crawls, enhanced_navigation_file>>

serverVars == <<tasks, task_queue, worker, requests, task, submitted, executed>>

vars == <<pc, dedupeVars, content_filter, textVars, pageVars, siteVars, htmlVars, sharedVars,
          crawlVars, serverVars>>

(***************************************************************************)
(* Bounds of the model.                                                    *)
(***************************************************************************)
MaxLinks == 3
MaxLevel == 1
MaxLines == 3
MaxElems == 2
MaxPages == 3
MaxBlocks == 2
MaxCalls == 2
MaxUrls == 2
MaxTasks == 2

\* None where a string is expected, and None where a dictionary is: TLC compares
\* values of one kind only
None == <<"None">>

NoneDict == [none |-> TRUE]

(***************************************************************************)
(* Sequences.                                                              *)
(***************************************************************************)
SeqsUpTo(S, n) == UNION {[1..k -> S] : k \in 0..n}

Range(s) == {s[i] : i \in DOMAIN s}

(***************************************************************************)
(* Strings.                                                                *)
(***************************************************************************)
PieceLen(c) ==
    CASE c = "x96" -> 96 [] c = "x97" -> 97 [] c = "x196" -> 196 [] c = "x197" -> 197
      [] OTHER -> 1

\* len(s)
RECURSIVE StrLen(_)
StrLen(s) == IF s = <<>> THEN 0 ELSE PieceLen(Head(s)) + StrLen(Tail(s))

LowerPiece(c) ==
    CASE c = "A" -> "a" [] c = "B" -> "b" [] c = "D" -> "d" [] c = "H" -> "h"
      [] c = "T" -> "t" [] c = "M" -> "m" [] c = ".PNG" -> ".png"
      [] OTHER -> c

\* s.lower()
Lower(s) == [i \in DOMAIN s |-> LowerPiece(s[i])]

\* sub in s
Contains(s, sub) ==
    \E i \in 0..(Len(s) - Len(sub)) : SubSeq(s, i + 1, i + Len(sub)) = sub

IsSpace(c) == c \in {" ", "\n", "\t"}

RECURSIVE LStrip(_)
LStrip(s) == IF s # <<>> /\ IsSpace(Head(s)) THEN LStrip(Tail(s)) ELSE s

RECURSIVE RStrip(_)
RStrip(s) ==
    IF s # <<>> /\ IsSpace(s[Len(s)]) THEN RStrip(SubSeq(s, 1, Len(s) - 1)) ELSE s

\* s.strip()
Strip(s) == RStrip(LStrip(s))

\* s.split('\n'): the lines of s, at least one
RECURSIVE SplitLines(_, _)
SplitLines(s, line) ==
    IF s = <<>> THEN <<line>>
    ELSE IF Head(s) = "\n" THEN <<line>> \o SplitLines(Tail(s), <<>>)
    ELSE SplitLines(Tail(s), Append(line, Head(s)))

\* '\n'.join(lines)
RECURSIVE JoinLines(_)
JoinLines(lines) ==
    IF lines = <<>> THEN <<>>
    ELSE IF Len(lines) = 1 THEN lines[1]
    ELSE lines[1] \o <<"\n">> \o JoinLines(Tail(lines))

(***************************************************************************)
(* Lists made from sets.  list(set(x)) has the members of x in an order    *)
(* the program does not control.  ListsOfSet(S, hot) holds every list of S *)
(* in which the members of hot come first, in any order, and the others    *)
(* follow in one fixed order: with hot the members whose place in the list *)
(* can change what a loop over the list does, these lists stand for all.   *)
(***************************************************************************)
Perms(S) == {f \in [1..Cardinality(S) -> S] : \A i, j \in DOMAIN f : i # j => f[i] # f[j]}

RECURSIVE SetToSeq(_)
SetToSeq(S) ==
    IF S = {} THEN <<>> ELSE LET x == CHOOSE y \in S : TRUE IN <<x>> \o SetToSeq(S \ {x})

ListsOfSet(S, hot) == {p \o SetToSeq(S \ hot) : p \in Perms(S \cap hot)}

(***************************************************************************)
(* ContentFilter: the catalog, __init__ and the two compile methods.       *)
(* A selector is the record Sel gives: tag, class and id name the element  *)
(* (an empty string leaves that part open), attr/op/value an attribute     *)
(* test, pseudo a structural pseudo-class of a custom selector.            *)
(***************************************************************************)
Sel(tag, class, id, attr, op, value) ==
    [tag |-> tag, class |-> class, id |-> id, attr |-> attr, op |-> op,
     value |-> value, pseudo |-> ""]

\* A character outside ASCII is the piece "uXXXX" of its code point.
PRESET_FILTERS ==
       "footer" :> [selectors |-> {
           Sel("footer", "", "", "", "", ""),
           Sel("", "footer", "", "", "", ""),
           Sel("", "", "footer", "", "", ""),
           Sel("", "site-footer", "", "", "", ""),
           Sel("", "page-footer", "", "", "", ""),
           Sel("", "footer-content", "", "", "", ""),
           Sel("", "footer-wrapper", "", "", "", ""),
           Sel("", "footer-container", "", "", "", ""),
           Sel("", "", "", "role", "=", "contentinfo"),
           Sel("", "footer-section", "", "", "", ""),
           Sel("", "bottom-footer", "", "", "", "")
         },
         keywords |-> {
           <<"u7248", "u6743", "u6240", "u6709">>,
           <<"u00A9">>,
           <<"c", "o", "p", "y", "r", "i", "g", "h", "t">>,
           <<"u8054", "u7CFB", "u6211", "u4EEC">>,
           <<"u53CB", "u60C5", "u94FE", "u63A5">>
         }]
    @@ "header" :> [selectors |-> {
           Sel("header", "", "", "", "", ""),
           Sel("", "header", "", "", "", ""),
           Sel("", "", "header", "", "", ""),
           Sel("", "site-header", "", "", "", ""),
           Sel("", "page-header", "", "", "", ""),
           Sel("", "header-content", "", "", "", ""),
           Sel("", "header-wrapper", "", "", "", ""),
           Sel("", "header-container", "", "", "", ""),
           Sel("", "top-header", "", "", "", ""),
           Sel("", "main-header", "", "", "", "")
         },
         keywords |-> {
         }]
    @@ "navigation" :> [selectors |-> {
           Sel("nav", "", "", "", "", ""),
           Sel("", "nav", "", "", "", ""),
           Sel("", "navigation", "", "", "", ""),
           Sel("", "navbar", "", "", "", ""),
           Sel("", "menu", "", "", "", ""),
           Sel("", "sidebar", "", "", "", ""),
           Sel("", "", "", "role", "=", "navigation"),
           Sel("", "nav-menu", "", "", "", ""),
           Sel("", "main-nav", "", "", "", ""),
           Sel("", "site-nav", "", "", "", ""),
           Sel("", "primary-nav", "", "", "", ""),
           Sel("", "header-nav", "", "", "", ""),
           Sel("", "top-nav", "", "", "", ""),
           Sel("", "side-nav", "", "", "", ""),
           Sel("", "navigation-menu", "", "", "", ""),
           Sel("", "breadcrumb", "", "", "", ""),
           Sel("", "breadcrumbs", "", "", "", "")
         },
         keywords |-> {
         }]
    @@ "ads" :> [selectors |-> {
           Sel("", "ad", "", "", "", ""),
           Sel("", "ads", "", "", "", ""),
           Sel("", "advertisement", "", "", "", ""),
           Sel("", "advert", "", "", "", ""),
           Sel("", "banner", "", "", "", ""),
           Sel("", "google-ad", "", "", "", ""),
           Sel("", "adsense", "", "", "", ""),
           Sel("", "ad-container", "", "", "", ""),
           Sel("", "ad-wrapper", "", "", "", ""),
           Sel("", "sponsored", "", "", "", ""),
           Sel("", "promotion", "", "", "", ""),
           Sel("", "promo", "", "", "", ""),
           Sel("", "", "", "id", "*=", "ad"),
           Sel("", "", "", "class", "*=", "ad-"),
           Sel("", "", "", "class", "*=", "ads-")
         },
         keywords |-> {
           <<"u5E7F", "u544A">>,
           <<"u63A8", "u5E7F">>,
           <<"A", "D">>,
           <<"a", "d", "s">>,
           <<"a", "d", "v", "e", "r", "t", "i", "s", "e", "m", "e", "n", "t">>,
           <<"s", "p", "o", "n", "s", "o", "r", "e", "d">>
         }]
    @@ "social" :> [selectors |-> {
           Sel("", "social", "", "", "", ""),
           Sel("", "social-media", "", "", "", ""),
           Sel("", "social-links", "", "", "", ""),
           Sel("", "share", "", "", "", ""),
           Sel("", "share-buttons", "", "", "", ""),
           Sel("", "social-share", "", "", "", ""),
           Sel("", "follow-us", "", "", "", ""),
           Sel("", "social-icons", "", "", "", ""),
           Sel("", "social-bar", "", "", "", "")
         },
         keywords |-> {
           <<"u5206", "u4EAB">>,
           <<"u5173", "u6CE8", "u6211", "u4EEC">>,
           <<"f", "o", "l", "l", "o", "w", " ", "u", "s">>,
           <<"s", "h", "a", "r", "e">>
         }]
    @@ "comments" :> [selectors |-> {
           Sel("", "comments", "", "", "", ""),
           Sel("", "comment", "", "", "", ""),
           Sel("", "comment-section", "", "", "", ""),
           Sel("", "discussion", "", "", "", ""),
           Sel("", "replies", "", "", "", ""),
           Sel("", "feedback", "", "", "", ""),
           Sel("", "", "comments", "", "", ""),
           Sel("", "", "disqus_thread", "", "", ""),
           Sel("", "comment-form", "", "", "", ""),
           Sel("", "comment-list", "", "", "", "")
         },
         keywords |-> {
           <<"u8BC4", "u8BBA">>,
           <<"u7559", "u8A00">>,
           <<"c", "o", "m", "m", "e", "n", "t", "s">>,
           <<"d", "i", "s", "c", "u", "s", "s", "i", "o", "n">>
         }]
    @@ "sidebar" :> [selectors |-> {
           Sel("", "sidebar", "", "", "", ""),
           Sel("", "side-bar", "", "", "", ""),
           Sel("", "widget", "", "", "", ""),
           Sel("", "widgets", "", "", "", ""),
           Sel("", "sidebar-content", "", "", "", ""),
           Sel("", "secondary", "", "", "", ""),
           Sel("", "aside", "", "", "", ""),
           Sel("", "", "", "role", "=", "complementary")
         },
         keywords |-> {
         }]
    @@ "popup" :> [selectors |-> {
           Sel("", "popup", "", "", "", ""),
           Sel("", "modal", "", "", "", ""),
           Sel("", "overlay", "", "", "", ""),
           Sel("", "lightbox", "", "", "", ""),
           Sel("", "dialog", "", "", "", ""),
           Sel("", "alert", "", "", "", ""),
           Sel("", "notification", "", "", "", ""),
           Sel("", "toast", "", "", "", ""),
           Sel("", "popup-content", "", "", "", ""),
           Sel("", "modal-content", "", "", "", "")
         },
         keywords |-> {
         }]

\* for filter_name in enabled_filters: if filter_name in PRESET_FILTERS: extend
RECURSIVE PresetUnion(_, _)
PresetUnion(enabled, field) ==
    IF enabled = <<>> THEN {}
    ELSE (IF Head(enabled) \in DOMAIN PRESET_FILTERS
          THEN IF field = "selectors" THEN PRESET_FILTERS[Head(enabled)].selectors
               ELSE PRESET_FILTERS[Head(enabled)].keywords
          ELSE {})
         \cup PresetUnion(Tail(enabled), field)

\* set(selectors) of _compile_selectors, before list() orders it
CompileSelectors(enabled, custom) == PresetUnion(enabled, "selectors") \cup Range(custom)

\* _compile_keywords without the custom keywords
CompileKeywordsPresetOnly(enabled, custom) == PresetUnion(enabled, "keywords")

\* set(keywords) of _compile_keywords, before list() orders it
CompileKeywords(enabled, custom) == PresetUnion(enabled, "keywords") \cup Range(custom)

\* the objects __init__ can build from a configuration: one per order of the
\* two compiled lists
ContentFilters(enabled, custom_sel, custom_kw, hot_sel, hot_kw) ==
    {[enabled_filters |-> enabled, custom_selectors |-> custom_sel,
      custom_keywords |-> custom_kw, compiled_selectors |-> sl, compiled_keywords |-> kl] :
        sl \in ListsOfSet(CompileSelectors(enabled, custom_sel), hot_sel),
        kl \in ListsOfSet(CompileKeywords(enabled, custom_kw), hot_kw)}

(***************************************************************************)
(* filter_text                                                             *)
(***************************************************************************)
TextLineThreshold == 100

\* the inner loop of filter_text: the first keyword found in the line decides
RECURSIVE ShouldKeepLineRaw(_, _)
ShouldKeepLineRaw(line, keywords) ==
    IF keywords = <<>> THEN TRUE
    ELSE IF Contains(Lower(line), Lower(Head(keywords)))
              /\ StrLen(line) < TextLineThreshold
         THEN FALSE
         ELSE ShouldKeepLineRaw(line, Tail(keywords))

RECURSIVE ShouldKeepLine(_, _)
ShouldKeepLine(line, keywords) ==
    IF keywords = <<>> THEN TRUE
    ELSE IF Contains(Lower(line), Lower(Head(keywords)))
              /\ StrLen(Strip(line)) < TextLineThreshold
         THEN FALSE
         ELSE ShouldKeepLine(line, Tail(keywords))

RECURSIVE FilterLines(_, _)
FilterLines(lines, keywords) ==
    IF lines = <<>> THEN <<>>
    ELSE (IF ShouldKeepLine(Head(lines), keywords) THEN <<Head(lines)>> ELSE <<>>)
         \o FilterLines(Tail(lines), keywords)

FilterText(self, text) ==
    IF text = <<>> \/ self.compiled_keywords = <<>> THEN text
    ELSE JoinLines(FilterLines(SplitLines(text, <<>>), self.compiled_keywords))

(***************************************************************************)
(* Link entries, as _extract_nav_element_info builds them.  href,          *)
(* css_classes and attributes travel with an entry exactly as parent_text  *)
(* does and are read by no operation modelled here.                        *)
(***************************************************************************)
LinkTexts == {<<"a">>, <<"a", "|">>}

LinkUrls == {<<"u">>, <<"|", "u">>}

ParentTexts == {None, <<"p">>}

LinkEntries ==
    [text : LinkTexts, url : LinkUrls, level : 0..MaxLevel, parent_text : ParentTexts]

(***************************************************************************)
(* _deduplicate_links                                                      *)
(***************************************************************************)
DedupKey(link) == link.text \o <<"|">> \o link.url

RECURSIVE DedupLoopLastWins(_, _, _, _)
DedupLoopLastWins(ls, i, seen, unique) ==
    IF i > Len(ls) THEN unique
    ELSE LET key == DedupKey(ls[i]) IN
         IF key \notin seen
         THEN DedupLoopLastWins(ls, i + 1, seen \cup {key}, Append(unique, ls[i]))
         ELSE DedupLoopLastWins(ls, i + 1, seen,
                  [j \in DOMAIN unique |->
                      IF DedupKey(unique[j]) = key THEN ls[i] ELSE unique[j]])

\* the loop of _deduplicate_links with a set that takes the first key only
RECURSIVE DedupLoopFirstKeyOnly(_, _, _, _)
DedupLoopFirstKeyOnly(ls, i, seen, unique) ==
    IF i > Len(ls) THEN unique
    ELSE LET key == DedupKey(ls[i]) IN
         IF key \notin seen
         THEN DedupLoopFirstKeyOnly(ls, i + 1, IF seen = {} THEN {key} ELSE seen,
                                    Append(unique, ls[i]))
         ELSE DedupLoopFirstKeyOnly(ls, i + 1, seen, unique)

RECURSIVE DedupLoop(_, _, _, _)
DedupLoop(ls, i, seen, unique) ==
    IF i > Len(ls) THEN unique
    ELSE LET key == DedupKey(ls[i]) IN
         IF key \notin seen
         THEN DedupLoop(ls, i + 1, seen \cup {key}, Append(unique, ls[i]))
         ELSE DedupLoop(ls, i + 1, seen, unique)

DeduplicateLinksLastWins(ls) == DedupLoopLastWins(ls, 1, {}, <<>>)

DeduplicateLinks(ls) == DedupLoop(ls, 1, {}, <<>>)

(***************************************************************************)
(* _build_navigation_structure                                             *)
(***************************************************************************)
StructureItem(link, level) ==
    [text |-> link.text, url |-> link.url, level |-> level,
     parent_text |-> link.parent_text, type |-> "navigation"]

\* levels[level]: the links of one level, in the order of the list
RECURSIVE LevelGroup(_, _, _)
LevelGroup(ls, level, i) ==
    IF i > Len(ls) THEN <<>>
    ELSE (IF ls[i].level = level THEN <<ls[i]>> ELSE <<>>) \o LevelGroup(ls, level, i + 1)

\* for level in sorted(levels.keys()): for link in levels[level]: append
RECURSIVE StructureLoop(_, _)
StructureLoop(ls, keys) ==
    IF keys = {} THEN <<>>
    ELSE LET level == CHOOSE k \in keys : \A m \in keys : k <= m
             group == LevelGroup(ls, level, 1)
         IN [j \in DOMAIN group |-> StructureItem(group[j], level)]
            \o StructureLoop(ls, keys \ {level})

BuildNavigationStructureUnsorted(ls) ==
    [j \in DOMAIN ls |-> StructureItem(ls[j], ls[j].level)]

BuildNavigationStructure(ls) ==
    StructureLoop(ls, {ls[i].level : i \in DOMAIN ls})

(***************************************************************************)
(* Names as characters: the class names, ids and attribute values that a   *)
(* substring test of the program reads.                                    *)
(***************************************************************************)
Chars(name) ==
    CASE name = "" -> <<>>
      [] name = "ad" -> <<"a", "d">>
      [] name = "ad-" -> <<"a", "d", "-">>
      [] name = "ads-" -> <<"a", "d", "s", "-">>
      [] name = "ad-box" -> <<"a", "d", "-", "b", "o", "x">>
      [] name = "lead" -> <<"l", "e", "a", "d">>
      [] name = "menu" -> <<"m", "e", "n", "u">>
      [] name = "Menu-item" -> <<"M", "e", "n", "u", "-", "i", "t", "e", "m">>
      [] name = "item" -> <<"i", "t", "e", "m">>
      [] name = "navbar" -> <<"n", "a", "v", "b", "a", "r">>
      [] name = "me" -> <<"m", "e">>
      [] name = "nu" -> <<"n", "u">>

\* ' '.join(class_list)
RECURSIVE JoinNames(_)
JoinNames(names) ==
    IF names = <<>> THEN <<>>
    ELSE IF Len(names) = 1 THEN Chars(names[1])
    ELSE Chars(names[1]) \o <<" ">> \o JoinNames(Tail(names))

\* str(class_list): ['a', 'b']
RECURSIVE QuotedNames(_)
QuotedNames(names) ==
    IF names = <<>> THEN <<>>
    ELSE <<"'">> \o Chars(names[1]) \o <<"'">>
         \o (IF Len(names) = 1 THEN <<>> ELSE <<",", " ">> \o QuotedNames(Tail(names)))

StrOfList(names) == <<"[">> \o QuotedNames(names) \o <<"]">>

(***************************************************************************)
(* soup.select: whether an element matches a selector.  An element has a   *)
(* name, a list of class names, an id and a role ("" when it has none).    *)
(***************************************************************************)
AttrChars(el, attr) ==
    CASE attr = "id" -> Chars(el.id)
      [] attr = "class" -> JoinNames(el.class)
      [] attr = "role" -> Chars(el.role)

AttrPresent(el, attr) ==
    CASE attr = "id" -> el.id # ""
      [] attr = "class" -> el.class # <<>>
      [] attr = "role" -> el.role # ""

AttrName(el, attr) ==
    CASE attr = "id" -> el.id
      [] attr = "role" -> el.role

MatchesSimple(sel, el) ==
    /\ sel.tag = "" \/ el.name = sel.tag
    /\ sel.class = "" \/ sel.class \in Range(el.class)
    /\ sel.id = "" \/ el.id = sel.id
    /\ sel.op = "=" => (AttrPresent(el, sel.attr) /\ AttrName(el, sel.attr) = sel.value)
    /\ sel.op = "*=" =>
          (AttrPresent(el, sel.attr) /\ Contains(AttrChars(el, sel.attr), Chars(sel.value)))

(***************************************************************************)
(* URLs: urlparse and urljoin on the pieces of a URL.                      *)
(***************************************************************************)
HasScheme(u) == Len(u) >= 2 /\ u[2] \in {"://", ":"}

\* urlparse(u).scheme
UrlScheme(u) == IF HasScheme(u) THEN LowerPiece(u[1]) ELSE ""

\* urlparse(u).netloc
UrlNetloc(u) == IF Len(u) >= 3 /\ u[2] = "://" THEN u[3] ELSE ""

\* urlparse(u).path
UrlPath(u) ==
    IF Len(u) >= 3 /\ u[2] = "://" THEN SubSeq(u, 4, Len(u))
    ELSE IF HasScheme(u) THEN SubSeq(u, 3, Len(u))
    ELSE u

\* a path up to its last "/"
RECURSIVE DirOf(_)
DirOf(path) ==
    IF path = <<>> THEN <<"/">>
    ELSE IF path[Len(path)] = "/" THEN path
    ELSE DirOf(SubSeq(path, 1, Len(path) - 1))

\* urljoin(base, href), base an absolute http(s) URL
UrlJoin(base, href) ==
    IF href = <<>> THEN base
    ELSE IF HasScheme(href) THEN href
    ELSE IF href[1] = "/" THEN <<base[1], "://", UrlNetloc(base)>> \o href
    ELSE <<base[1], "://", UrlNetloc(base)>> \o DirOf(UrlPath(base)) \o href

\* urljoin(base, href) raises ValueError('Invalid IPv6 URL'): the host of href
\* opens a bracket it does not close
UrlJoinRaises(base, href) == UrlNetloc(href) = "[invalid"

\* an exception that leaves a method of the extractor
Raised == [raised |-> "ValueError"]

(***************************************************************************)
(* EnhancedNavigationExtractor.  A page (html_content) is the list, in     *)
(* document order, of the elements a navigation selector can match; each   *)
(* has its descendant anchors, in document order, and sits directly under  *)
(* body.  An anchor has its href, its text and wrap, the chain of elements *)
(* between it and the navigation element, innermost first; such an element *)
(* holds a label and, after it, the anchor.  empty marks the empty string. *)
(***************************************************************************)
NewExtractor(base_url) == [base_url |-> base_url, domain |-> UrlNetloc(base_url)]

nav_selectors ==
    << Sel("nav", "", "", "role", "=", "navigation"),
       Sel("nav", "main-nav", "", "", "", ""),
       Sel("nav", "primary-nav", "", "", "", ""),
       Sel("nav", "site-nav", "", "", "", ""),
       Sel("nav", "header-nav", "", "", "", ""),
       Sel("nav", "top-nav", "", "", "", ""),
       Sel("", "navbar", "", "", "", ""),
       Sel("", "navigation", "", "", "", ""),
       Sel("", "nav-menu", "", "", "", ""),
       Sel("", "main-navigation", "", "", "", ""),
       Sel("", "site-navigation", "", "", "", ""),
       Sel("", "header-navigation", "", "", "", ""),
       Sel("", "primary-navigation", "", "", "", ""),
       Sel("nav", "", "", "", "", ""),
       Sel("", "nav", "", "", "", ""),
       Sel("", "menu", "", "", "", ""),
       Sel("", "", "", "role", "=", "navigation"),
       Sel("", "sidebar-nav", "", "", "", ""),
       Sel("", "side-nav", "", "", "", "") >>

AssetExtensions == <<".pdf", ".jpg", ".png", ".gif", ".css", ".js", ".ico">>

\* _is_valid_internal_url
IsValidInternalUrl(self, url) ==
    /\ UrlNetloc(url) = self.domain
    /\ UrlScheme(url) \in {"http", "https"}
    /\ ~\E i \in DOMAIN AssetExtensions : Contains(Lower(url), <<AssetExtensions[i]>>)

\* anchor.get_text(strip=True)
AnchorText(a) == Strip(a.text)

\* get_text(strip=True) of the i-th element of the anchor's wrap
WrapText(a, i) == Strip(a.wrap[i].label) \o AnchorText(a)

\* get_text(strip=True) of a navigation element
RECURSIVE AnchorsText(_)
AnchorsText(anchors) ==
    IF anchors = <<>> THEN <<>>
    ELSE (IF Head(anchors).wrap = <<>> THEN AnchorText(Head(anchors))
          ELSE WrapText(Head(anchors), Len(Head(anchors).wrap)))
         \o AnchorsText(Tail(anchors))

ElementText(el) == AnchorsText(el.anchors)

\* _calculate_link_level counting every ul, ol, li and div
RECURSIVE LevelLoopAnyClass(_, _)
LevelLoopAnyClass(wrap, level) ==
    IF wrap = <<>> THEN level
    ELSE LevelLoopAnyClass(Tail(wrap),
             IF Head(wrap).name \in {"ul", "ol", "li", "div"} THEN level + 1 ELSE level)

\* _calculate_link_level: the loop from link.parent up to the navigation element
RECURSIVE LevelLoop(_, _)
LevelLoop(wrap, level) ==
    IF wrap = <<>> THEN level
    ELSE LevelLoop(Tail(wrap),
             IF Head(wrap).name \in {"ul", "ol", "li", "div"}
                  /\ Contains(Lower(StrOfList(Head(wrap).class)), Chars("menu"))
             THEN level + 1 ELSE level)

CalculateLinkLevel(a) == LevelLoop(a.wrap, 0)

\* s.replace(sub, '')
RECURSIVE Remove(_, _)
Remove(s, sub) ==
    IF sub = <<>> \/ Len(s) < Len(sub) THEN s
    ELSE IF SubSeq(s, 1, Len(sub)) = sub THEN Remove(SubSeq(s, Len(sub) + 1, Len(s)), sub)
    ELSE <<Head(s)>> \o Remove(Tail(s), sub)

\* _get_parent_text: the loop over the parents of the link, given as the list
\* of (name, text) from link.parent upwards; body and html are no li or div
RECURSIVE ParentTextLoop(_, _)
ParentTextLoop(parents, link_text) ==
    IF parents = <<>> THEN None
    ELSE IF Head(parents).name \in {"li", "div"} /\ Head(parents).text # link_text
              /\ Contains(Head(parents).text, link_text)
         THEN Strip(Remove(Head(parents).text, link_text))
         ELSE ParentTextLoop(Tail(parents), link_text)

GetParentText(a, el) ==
    ParentTextLoop([i \in DOMAIN a.wrap |-> [name |-> a.wrap[i].name, text |-> WrapText(a, i)]]
                       \o <<[name |-> el.name, text |-> ElementText(el)]>>,
                   AnchorText(a))

\* _has_nested_structure: 'ul ul, ol ol, li li, .dropdown, .submenu, .sub-menu'
HasNestedStructure(el) ==
    \E k \in DOMAIN el.anchors :
        LET chain == [i \in DOMAIN el.anchors[k].wrap |->
                         [name |-> el.anchors[k].wrap[i].name,
                          class |-> el.anchors[k].wrap[i].class]]
                     \o <<[name |-> el.name, class |-> el.class]>>
        IN \E i \in DOMAIN el.anchors[k].wrap :
              \/ Range(chain[i].class) \cap {"dropdown", "submenu", "sub-menu"} # {}
              \/ /\ chain[i].name \in {"ul", "ol", "li"}
                 /\ \E j \in (i + 1)..Len(chain) : chain[j].name = chain[i].name

\* the link_info of one anchor
LinkInfo(self, a, el, url) ==
    [text |-> AnchorText(a), url |-> UrlJoin(url, a.href), href |-> a.href,
     level |-> CalculateLinkLevel(a), parent_text |-> GetParentText(a, el),
     css_classes |-> <<>>, attributes |-> [href |-> a.href]]

\* the loop over find_all('a', href=True) of _extract_nav_element_info
RECURSIVE NavLinks(_, _, _, _)
NavLinks(self, el, url, i) ==
    IF i > Len(el.anchors) THEN <<>>
    ELSE LET a == el.anchors[i] IN
         (IF a.href # <<>> /\ AnchorText(a) # <<>>
               /\ IsValidInternalUrl(self, UrlJoin(url, a.href))
          THEN <<LinkInfo(self, a, el, url)>> ELSE <<>>)
         \o NavLinks(self, el, url, i + 1)

\* the loop over the anchors meets one whose urljoin raises
NavLinksRaise(el, url) ==
    \E i \in DOMAIN el.anchors :
        /\ el.anchors[i].href # <<>>
        /\ AnchorText(el.anchors[i]) # <<>>
        /\ UrlJoinRaises(url, el.anchors[i].href)

\* _extract_nav_element_info
ExtractNavElementInfo(self, el, url, selector) ==
    IF NavLinksRaise(el, url) THEN Raised
    ELSE [selector |-> selector, html |-> el, text |-> ElementText(el),
          links |-> NavLinks(self, el, url, 1),
          structure |-> IF HasNestedStructure(el) THEN "hierarchical" ELSE "flat"]

SetPrimaryAlways(primary, nav_info) == nav_info

\* if navigation_data['primary_navigation'] is None: ... = nav_info
SetPrimary(primary, nav_info) == IF primary = NoneDict THEN nav_info ELSE primary

\* the two nested loops without the test of nav_info['links']
RECURSIVE ScanLoopKeepEmpty(_, _, _, _, _, _, _)
ScanLoopKeepEmpty(self, html, url, si, ei, found, primary) ==
    IF si > Len(nav_selectors) THEN [found_navigations |-> found, primary_navigation |-> primary]
    ELSE IF ei > Len(html.elements) THEN ScanLoopKeepEmpty(self, html, url, si + 1, 1, found, primary)
    ELSE IF ~MatchesSimple(nav_selectors[si], html.elements[ei])
         THEN ScanLoopKeepEmpty(self, html, url, si, ei + 1, found, primary)
    ELSE IF NavLinksRaise(html.elements[ei], url) THEN Raised
    ELSE LET nav_info == ExtractNavElementInfo(self, html.elements[ei], url, nav_selectors[si])
         IN ScanLoopKeepEmpty(self, html, url, si, ei + 1, Append(found, nav_info),
                              SetPrimary(primary, nav_info))

\* the two nested loops of extract_navigation_from_html: selector si, element ei
RECURSIVE ScanLoop(_, _, _, _, _, _, _)
ScanLoop(self, html, url, si, ei, found, primary) ==
    IF si > Len(nav_selectors) THEN [found_navigations |-> found, primary_navigation |-> primary]
    ELSE IF ei > Len(html.elements) THEN ScanLoop(self, html, url, si + 1, 1, found, primary)
    ELSE IF ~MatchesSimple(nav_selectors[si], html.elements[ei])
         THEN ScanLoop(self, html, url, si, ei + 1, found, primary)
    ELSE IF NavLinksRaise(html.elements[ei], url) THEN Raised
    ELSE LET nav_info == ExtractNavElementInfo(self, html.elements[ei], url, nav_selectors[si])
         IN IF nav_info.links # <<>>
            THEN ScanLoop(self, html, url, si, ei + 1, Append(found, nav_info),
                          SetPrimary(primary, nav_info))
            ELSE ScanLoop(self, html, url, si, ei + 1, found, primary)

\* the scan of extract_navigation_from_html raises: a selector matches an
\* element in which the loop over the anchors raises
ExtractionRaises(self, html, url) ==
    \E si \in DOMAIN nav_selectors, ei \in DOMAIN html.elements :
        /\ MatchesSimple(nav_selectors[si], html.elements[ei])
        /\ NavLinksRaise(html.elements[ei], url)

\* all_links.extend(nav['links']) for nav in found_navigations
RECURSIVE AllLinks(_)
AllLinks(found) == IF found = <<>> THEN <<>> ELSE Head(found).links \o AllLinks(Tail(found))

\* extract_navigation_from_html without the call of _deduplicate_links
ExtractNavigationFromHtmlNoDedup(self, html, url) ==
    LET scan == ScanLoop(self, html, url, 1, 1, <<>>, NoneDict)
        all_links == AllLinks(scan.found_navigations)
    IN IF ExtractionRaises(self, html, url) THEN Raised ELSE
       [found_navigations |-> scan.found_navigations,
        primary_navigation |-> scan.primary_navigation,
        all_nav_links |-> all_links,
        navigation_structure |-> BuildNavigationStructure(all_links)]

\* extract_navigation_from_html
ExtractNavigationFromHtml(self, html, url) ==
    LET scan == ScanLoop(self, html, url, 1, 1, <<>>, NoneDict)
        unique == DeduplicateLinks(AllLinks(scan.found_navigations))
    IN IF ExtractionRaises(self, html, url) THEN Raised ELSE
       [found_navigations |-> scan.found_navigations,
        primary_navigation |-> scan.primary_navigation,
        all_nav_links |-> unique,
        navigation_structure |-> BuildNavigationStructure(unique)]

\* extract_navigation_from_crawl_result
ExtractNavigationFromCrawlResult(self, crawl_result) ==
    IF ~crawl_result.cleaned_html.empty
          /\ ExtractionRaises(self, crawl_result.cleaned_html, crawl_result.url)
    THEN Raised
    ELSE [url |-> crawl_result.url,
          extracted_navigation |->
             IF crawl_result.extracted_content # <<>>
                   /\ crawl_result.extracted_content[1].navigation # <<>>
             THEN crawl_result.extracted_content[1].navigation ELSE None,
          enhanced_navigation |->
             IF ~crawl_result.cleaned_html.empty
             THEN ExtractNavigationFromHtml(self, crawl_result.cleaned_html, crawl_result.url)
             ELSE NoneDict]

\* the loop of enhance_navigation_extraction counting every page that has an
\* enhanced_navigation, with or without links
RECURSIVE EnhanceLoopCountAll(_, _, _, _)
EnhanceLoopCountAll(self, results, i, acc) ==
    IF i > Len(results) THEN acc
    ELSE LET page_nav == ExtractNavigationFromCrawlResult(self, results[i])
         IN IF ~results[i].cleaned_html.empty
               /\ ExtractionRaises(self, results[i].cleaned_html, results[i].url)
            THEN Raised ELSE
            EnhanceLoopCountAll(self, results, i + 1,
                [page_navigations |-> Append(acc.page_navigations, page_nav),
                 pages_with_navigation |->
                    IF page_nav.enhanced_navigation # NoneDict
                    THEN acc.pages_with_navigation + 1
                    ELSE acc.pages_with_navigation,
                 all_nav_links |->
                    IF page_nav.enhanced_navigation # NoneDict
                    THEN acc.all_nav_links \o page_nav.enhanced_navigation.all_nav_links
                    ELSE acc.all_nav_links])

\* the loop of enhance_navigation_extraction leaving at the first page
\* without navigation links
RECURSIVE EnhanceLoopStopAtEmpty(_, _, _, _)
EnhanceLoopStopAtEmpty(self, results, i, acc) ==
    IF i > Len(results) THEN acc
    ELSE LET page_nav == ExtractNavigationFromCrawlResult(self, results[i])
             has_nav == /\ page_nav.enhanced_navigation # NoneDict
                        /\ page_nav.enhanced_navigation.all_nav_links # <<>>
         IN IF ~results[i].cleaned_html.empty
               /\ ExtractionRaises(self, results[i].cleaned_html, results[i].url)
            THEN Raised
            ELSE IF ~has_nav
                 THEN [acc EXCEPT !.page_navigations = Append(@, page_nav)]
            ELSE EnhanceLoopStopAtEmpty(self, results, i + 1,
                    [page_navigations |-> Append(acc.page_navigations, page_nav),
                     pages_with_navigation |-> acc.pages_with_navigation + 1,
                     all_nav_links |->
                        acc.all_nav_links \o page_nav.enhanced_navigation.all_nav_links])

\* the loop of enhance_navigation_extraction over crawl_results
RECURSIVE EnhanceLoop(_, _, _, _)
EnhanceLoop(self, results, i, acc) ==
    IF i > Len(results) THEN acc
    ELSE LET page_nav == ExtractNavigationFromCrawlResult(self, results[i])
             has_nav == /\ page_nav.enhanced_navigation # NoneDict
                        /\ page_nav.enhanced_navigation.all_nav_links # <<>>
         IN IF ~results[i].cleaned_html.empty
               /\ ExtractionRaises(self, results[i].cleaned_html, results[i].url)
            THEN Raised ELSE
            EnhanceLoop(self, results, i + 1,
                [page_navigations |-> Append(acc.page_navigations, page_nav),
                 pages_with_navigation |->
                    IF has_nav THEN acc.pages_with_navigation + 1
                    ELSE acc.pages_with_navigation,
                 all_nav_links |->
                    IF has_nav
                    THEN acc.all_nav_links \o page_nav.enhanced_navigation.all_nav_links
                    ELSE acc.all_nav_links])

EnhanceNavigationExtractionNoDedup(results, base_url) ==
    LET self == NewExtractor(base_url)
        acc == EnhanceLoop(self, results, 1,
                   [page_navigations |-> <<>>, pages_with_navigation |-> 0,
                    all_nav_links |-> <<>>])
    IN IF \E i \in DOMAIN results :
             /\ ~results[i].cleaned_html.empty
             /\ ExtractionRaises(self, results[i].cleaned_html, results[i].url)
       THEN Raised ELSE
       [base_url |-> base_url, total_pages |-> Len(results),
        pages_with_navigation |-> acc.pages_with_navigation,
        unique_navigation_links |-> acc.all_nav_links,
        navigation_structure |-> BuildNavigationStructure(acc.all_nav_links),
        page_navigations |-> acc.page_navigations]

\* enhance_navigation_extraction
EnhanceNavigationExtraction(results, base_url) ==
    LET self == NewExtractor(base_url)
        acc == EnhanceLoop(self, results, 1,
                   [page_navigations |-> <<>>, pages_with_navigation |-> 0,
                    all_nav_links |-> <<>>])
        unique == DeduplicateLinks(acc.all_nav_links)
    IN IF \E i \in DOMAIN results :
             /\ ~results[i].cleaned_html.empty
             /\ ExtractionRaises(self, results[i].cleaned_html, results[i].url)
       THEN Raised ELSE
       [base_url |-> base_url, total_pages |-> Len(results),
        pages_with_navigation |-> acc.pages_with_navigation,
        unique_navigation_links |-> unique,
        navigation_structure |-> BuildNavigationStructure(unique),
        page_navigations |-> acc.page_navigations]

(***************************************************************************)
(* filter_html.  An HTML string is given as the tree html.parser reads     *)
(* from it: the sequence of its nodes in document order.  Node 1 is the    *)
(* BeautifulSoup object; every other node is a tag or a text node and      *)
(* names its parent by index.  No two text nodes of one parent are         *)
(* adjacent: the parser reads adjacent text as one node.  decompose()      *)
(* takes a node and its descendants out of the set of attached nodes.      *)
(***************************************************************************)
ElementTextThreshold == 200

DocumentNode ==
    [kind |-> "document", parent |-> 0, name |-> "[document]", class |-> <<>>, id |-> "",
     role |-> "", text |-> <<>>]

Tag(parent, name, class, id) ==
    [kind |-> "tag", parent |-> parent, name |-> name, class |-> class, id |-> id,
     role |-> "", text |-> <<>>]

NavigableString(parent, text) ==
    [kind |-> "text", parent |-> parent, name |-> "", class |-> <<>>, id |-> "",
     role |-> "", text |-> text]

\* the places where a text node is followed by a text node of the same parent
AdjacentTexts(nodes) ==
    {i \in 1..(Len(nodes) - 1) :
        /\ nodes[i].kind = "text"
        /\ nodes[i + 1].kind = "text"
        /\ nodes[i].parent = nodes[i + 1].parent}

\* BeautifulSoup(markup, 'html.parser') on the markup of these nodes
RECURSIVE Parse(_)
Parse(nodes) ==
    IF AdjacentTexts(nodes) = {} THEN nodes
    ELSE LET i == CHOOSE k \in AdjacentTexts(nodes) : \A m \in AdjacentTexts(nodes) : k <= m
             merged == [nodes[i] EXCEPT !.text = @ \o nodes[i + 1].text]
         IN Parse([k \in 1..(Len(nodes) - 1) |->
                      IF k < i THEN nodes[k]
                      ELSE IF k = i THEN merged
                      ELSE [nodes[k + 1] EXCEPT !.parent = IF @ > i + 1 THEN @ - 1 ELSE @]])

\* the number of attached nodes up to node n
Rank(alive, n) == Cardinality({m \in alive : m <= n})

\* str(soup): the string that holds the attached nodes, an empty string when
\* the BeautifulSoup object itself is decomposed
Str(nodes, alive) ==
    IF 1 \notin alive THEN <<DocumentNode>>
    ELSE LET Nth(k) == CHOOSE n \in alive : Rank(alive, n) = k
         IN Parse([k \in 1..Cardinality(alive) |->
                      [nodes[Nth(k)] EXCEPT !.parent = IF @ = 0 THEN 0 ELSE Rank(alive, @)]])

\* node m is node n or one of its descendants
RECURSIVE InSubtree(_, _, _)
InSubtree(nodes, n, m) == m = n \/ (m > n /\ InSubtree(nodes, n, nodes[m].parent))

Subtree(nodes, n) == {m \in DOMAIN nodes : InSubtree(nodes, n, m)}

RECURSIVE TextFrom(_, _, _, _)
TextFrom(nodes, alive, n, m) ==
    IF m > Len(nodes) THEN <<>>
    ELSE (IF m \in alive /\ nodes[m].kind = "text" /\ InSubtree(nodes, n, m)
          THEN nodes[m].text ELSE <<>>)
         \o TextFrom(nodes, alive, n, m + 1)

\* element.get_text()
GetText(nodes, alive, n) == TextFrom(nodes, alive, n, n)

\* the members of a set of numbers in ascending order
RECURSIVE Ascending(_)
Ascending(S) ==
    IF S = {} THEN <<>>
    ELSE LET n == CHOOSE x \in S : \A y \in S : x <= y IN <<n>> \o Ascending(S \ {n})

\* soup.select(selector) raises: an unknown pseudo-class
SelectorRaises(selector) == selector.pseudo = "unknown"

\* select_one in place of select: the first match only
SelectFirst(nodes, alive, selector) ==
    LET all == {n \in alive : nodes[n].kind = "tag" /\ MatchesSimple(selector, nodes[n])}
    IN {n \in all : \A m \in all : n <= m}

\* soup.select(selector): the attached tags the selector matches
Select(nodes, alive, selector) ==
    {n \in alive :
        /\ nodes[n].kind = "tag"
        /\ MatchesSimple(selector, nodes[n])
        /\ selector.pseudo = "first-child" =>
              \A m \in alive : (m < n /\ nodes[m].kind = "tag") =>
                  nodes[m].parent # nodes[n].parent}

\* the selector loop of filter_html: the matches of a selector are all found
\* before the first is decomposed, and each is counted, also one that went
\* with an earlier match
RECURSIVE SelectorLoopStopAtFailure(_, _, _, _)
SelectorLoopStopAtFailure(nodes, selectors, alive, count) ==
    IF selectors = <<>> \/ SelectorRaises(Head(selectors))
    THEN [alive |-> alive, removed_count |-> count]
    ELSE LET elements == Select(nodes, alive, Head(selectors))
         IN SelectorLoopStopAtFailure(nodes, Tail(selectors),
                                      alive \ UNION {Subtree(nodes, n) : n \in elements},
                                      count + Cardinality(elements))

RECURSIVE SelectorLoop(_, _, _, _)
SelectorLoop(nodes, selectors, alive, count) ==
    IF selectors = <<>> THEN [alive |-> alive, removed_count |-> count]
    ELSE IF SelectorRaises(Head(selectors))
         THEN SelectorLoop(nodes, Tail(selectors), alive, count)
         ELSE LET elements == Select(nodes, alive, Head(selectors))
              IN SelectorLoop(nodes, Tail(selectors),
                              alive \ UNION {Subtree(nodes, n) : n \in elements},
                              count + Cardinality(elements))

\* re.compile(keyword) succeeds
RegexValid(keyword) == "(" \notin Range(keyword)

\* pattern.search(s) without re.IGNORECASE
RegexSearchCaseSensitive(keyword, s) ==
    \E i \in 0..(Len(s) - Len(keyword)) :
        \A j \in DOMAIN keyword :
            IF keyword[j] = "." THEN PieceLen(s[i + j]) = 1 /\ s[i + j] # "\n"
            ELSE keyword[j] = s[i + j]

\* re.compile(keyword, re.IGNORECASE).search(s): a keyword is a pattern, in
\* which a dot stands for any character but a newline
RegexSearch(keyword, s) ==
    \E i \in 0..(Len(s) - Len(keyword)) :
        \A j \in DOMAIN keyword :
            IF keyword[j] = "." THEN PieceLen(s[i + j]) = 1 /\ s[i + j] # "\n"
            ELSE LowerPiece(keyword[j]) = LowerPiece(s[i + j])

\* soup.find_all(text=re.compile(keyword, re.IGNORECASE))
FindAllText(nodes, alive, keyword) ==
    Ascending({n \in alive : nodes[n].kind = "text" /\ RegexSearch(keyword, nodes[n].text)})

ShouldRemoveByKeyword(nodes, alive, element, keyword) ==
    LET text == Strip(GetText(nodes, alive, element))
        class_names == JoinNames(nodes[element].class)
        element_id == Chars(nodes[element].id)
    IN \/ StrLen(text) < ElementTextThreshold /\ Contains(Lower(text), Lower(keyword))
       \/ Contains(Lower(class_names), Lower(keyword))
       \/ Contains(Lower(element_id), Lower(keyword))

\* the inner loop of _filter_by_keywords.  A text node that went with an
\* element decomposed earlier is still in the list: reading its parent is a
\* use of a decomposed node, which raises or finds no parent as the library
\* has it.
RECURSIVE ElementLoop(_, _, _, _, _)
ElementLoop(nodes, keyword, elements, access, st) ==
    IF elements = <<>> \/ st.raised THEN st
    ELSE LET element == Head(elements)
             parent == nodes[element].parent
         IN IF element \notin st.alive
            THEN IF access = "raises" THEN [st EXCEPT !.raised = TRUE]
                 ELSE ElementLoop(nodes, keyword, Tail(elements), access, st)
            ELSE LET remove == ShouldRemoveByKeyword(nodes, st.alive, parent, keyword)
                     decision == [keyword |-> keyword, element |-> element,
                                  parent |-> parent, alive |-> st.alive, remove |-> remove]
                 IN ElementLoop(nodes, keyword, Tail(elements), access,
                        [st EXCEPT !.alive = IF remove THEN @ \ Subtree(nodes, parent) ELSE @,
                                   !.removed_count = IF remove THEN @ + 1 ELSE @,
                                   !.decisions = Append(@, decision)])

\* the loop over the keywords passing over a keyword that does not compile
RECURSIVE FilterByKeywordsSkipInvalid(_, _, _, _)
FilterByKeywordsSkipInvalid(nodes, keywords, access, st) ==
    IF keywords = <<>> \/ st.raised THEN st
    ELSE IF ~RegexValid(Head(keywords))
         THEN FilterByKeywordsSkipInvalid(nodes, Tail(keywords), access, st)
    ELSE FilterByKeywordsSkipInvalid(nodes, Tail(keywords), access,
             ElementLoop(nodes, Head(keywords),
                         FindAllText(nodes, st.alive, Head(keywords)), access, st))

RECURSIVE FilterByKeywords(_, _, _, _)
FilterByKeywords(nodes, keywords, access, st) ==
    IF keywords = <<>> \/ st.raised THEN st
    ELSE IF ~RegexValid(Head(keywords)) THEN [st EXCEPT !.raised = TRUE]
    ELSE FilterByKeywords(nodes, Tail(keywords), access,
             ElementLoop(nodes, Head(keywords),
                         FindAllText(nodes, st.alive, Head(keywords)), access, st))

\* filter_html returning the serialised tree also after a failure
FilterHtmlNoCatch(self, html, access) ==
    LET sel == SelectorLoop(html, self.compiled_selectors, DOMAIN html, 0)
        st == [alive |-> sel.alive, removed_count |-> sel.removed_count,
               decisions |-> <<>>, raised |-> FALSE]
        kw == IF self.compiled_keywords # <<>>
              THEN FilterByKeywords(html, self.compiled_keywords, access, st)
              ELSE st
    IN [soup |-> [alive |-> kw.alive, after_selectors |-> sel.alive,
                  decisions |-> kw.decisions,
                  raised |-> kw.raised \/ (1 \notin kw.alive /\ access = "raises")],
        removed_count |-> kw.removed_count,
        filtered_html |-> Str(html, kw.alive)]

\* filter_html: what it leaves (soup, removed_count) and what it returns
FilterHtml(self, html, access) ==
    IF Len(html) = 1
    THEN [soup |-> [alive |-> DOMAIN html, after_selectors |-> DOMAIN html,
                    decisions |-> <<>>, raised |-> FALSE],
          removed_count |-> 0, filtered_html |-> html]
    ELSE LET sel == SelectorLoop(html, self.compiled_selectors, DOMAIN html, 0)
             st == [alive |-> sel.alive, removed_count |-> sel.removed_count,
                    decisions |-> <<>>, raised |-> FALSE]
             kw == IF self.compiled_keywords # <<>>
                   THEN FilterByKeywords(html, self.compiled_keywords, access, st)
                   ELSE st
             raised == kw.raised \/ (1 \notin kw.alive /\ access = "raises")
         IN [soup |-> [alive |-> kw.alive, after_selectors |-> sel.alive,
                       decisions |-> kw.decisions, raised |-> raised],
             removed_count |-> kw.removed_count,
             filtered_html |-> IF raised THEN html ELSE Str(html, kw.alive)]

(***************************************************************************)
(* Idle values of the variables an entry point does not use.               *)
(***************************************************************************)
IdleFilter ==
    [enabled_filters |-> <<>>, custom_selectors |-> <<>>, custom_keywords |-> <<>>,
     compiled_selectors |-> <<>>, compiled_keywords |-> <<>>]

IdleText == text_content = <<>> /\ filtered_text = <<>>

IdleDedupe == links = <<>> /\ unique_links = <<>> /\ navigation_structure = <<>>

IdlePage ==
    /\ extractor = NoneDict
    /\ html_content = NoneDict
    /\ page_url = <<>>
    /\ navigation_data = NoneDict

IdleSite == crawl_results = <<>> /\ enhanced_results = NoneDict

IdleSoup == [alive |-> {}, after_selectors |-> {}, decisions |-> <<>>, raised |-> FALSE]

IdleHtml ==
    /\ decomposed = ""
    /\ soup = IdleSoup
    /\ removed_count = 0
    /\ filtered_html = <<>>
    /\ refiltered = NoneDict

IdleShared == calls = <<>>

IdleCrawl ==
    /\ crawler = NoneDict
    /\ urls = <<>>
    /\ batch_size = 0
    /\ engine = <<>>
    /\ batch_start = 0
    /\ batch_results = <<>>
    /\ successful_crawls = 0
    /\ failed_crawls = 0
    /\ enhanced_navigation_file = NoneDict

IdleServer ==
    /\ tasks = <<>>
    /\ task_queue = <<>>
    /\ worker = NoneDict
    /\ requests = <<>>
    /\ task = NoneDict
    /\ submitted = <<>>
    /\ executed = <<>>

(***************************************************************************)
(* SpecDedupe: _deduplicate_links on any list of link entries, followed by *)
(* _build_navigation_structure on its result, as lines 77-81 and 267-271   *)
(* of enhanced_navigation_extractor.py chain them.                         *)
(***************************************************************************)
InitDedupe ==
    /\ pc = "links"
    /\ links \in SeqsUpTo(LinkEntries, MaxLinks)
    /\ unique_links = <<>>
    /\ navigation_structure = <<>>
    /\ content_filter = IdleFilter
    /\ IdleText
    /\ IdlePage
    /\ IdleSite
    /\ IdleHtml
    /\ IdleShared
    /\ IdleCrawl
    /\ IdleServer

Deduplicate ==
    /\ pc = "links"
    /\ unique_links' = DeduplicateLinks(links)
    /\ pc' = "deduplicated"
    /\ UNCHANGED <<links, navigation_structure, content_filter, textVars, pageVars, siteVars,
                   htmlVars, sharedVars,
                   crawlVars, serverVars>>

BuildStructure ==
    /\ pc = "deduplicated"
    /\ navigation_structure' = BuildNavigationStructure(unique_links)
    /\ pc' = "structured"
    /\ UNCHANGED <<links, unique_links, content_filter, textVars, pageVars, siteVars, htmlVars, sharedVars,
                   crawlVars, serverVars>>

NextDedupe == Deduplicate \/ BuildStructure

SpecDedupe == InitDedupe /\ [][NextDedupe]_vars

(***************************************************************************)
(* SpecText: filter_text of a ContentFilter built from a configuration, on *)
(* a text of up to MaxLines lines.                                         *)
(***************************************************************************)
TextLines ==
    { <<"H", "e", "a", "d">>,
      <<" ", "a", "d", "s", "x96", " ">>,
      <<"a", "d", "s", "x97">>,
      <<"s", "h", "a", "r", "e">>,
      <<>> }

TextEnabledFilters ==
    {<<>>, <<"ads">>, <<"social", "no-such-rule">>, <<"header">>,
     <<"no-such-rule", "ads", "social", "ads">>}

TextCustomKeywords == {<<>>, <<<<"H", "E">>>>, << <<"H", "E">>, <<"s", "h", "a", "r", "e">>, <<"H", "E">> >>}

\* the keywords some line of the text contains: their place in the list decides
\* which keyword filter_text meets first
KeywordsInText(text) ==
    {k \in UNION {PRESET_FILTERS[n].keywords : n \in DOMAIN PRESET_FILTERS}
              \cup UNION {Range(c) : c \in TextCustomKeywords} :
        Contains(Lower(text), Lower(k))}

InitText ==
    /\ pc = "text"
    /\ text_content \in {JoinLines(ls) : ls \in SeqsUpTo(TextLines, MaxLines)}
    /\ \E enabled \in TextEnabledFilters, custom \in TextCustomKeywords,
          custom_selectors \in {<<>>, << Sel("p", "", "", "", "", ""), Sel("", "ad", "", "", "", ""),
                                        Sel("p", "", "", "", "", "") >>} :
          content_filter \in
              ContentFilters(enabled, custom_selectors, custom, {}, KeywordsInText(text_content))
    /\ filtered_text = <<>>
    /\ IdleDedupe
    /\ IdlePage
    /\ IdleSite
    /\ IdleHtml
    /\ IdleShared
    /\ IdleCrawl
    /\ IdleServer

FilterTextCall ==
    /\ pc = "text"
    /\ filtered_text' = FilterText(content_filter, text_content)
    /\ pc' = "text_filtered"
    /\ UNCHANGED <<dedupeVars, content_filter, text_content, pageVars, siteVars, htmlVars, sharedVars,
                   crawlVars, serverVars>>

NextText == FilterTextCall

SpecText == InitText /\ [][NextText]_vars

(***************************************************************************)
(* Pages for the navigation extractor.                                     *)
(***************************************************************************)
SiteBaseUrl == <<"https", "://", "example.com">>

WelcomeUrl == <<"https", "://", "example.com", "/", "welcome">>

GuideUrl == <<"https", "://", "example.com", "/", "guide", "/", "intro">>

PageUrls == {WelcomeUrl, GuideUrl}

Anchor(href, text, wrap) == [href |-> href, text |-> text, wrap |-> wrap]

\* <li class="Menu-item">M <a ...>
MenuItem == [name |-> "li", class |-> <<"Menu-item">>, label |-> <<"M", " ">>]

\* <li class="item"><a ...>
PlainItem == [name |-> "li", class |-> <<"item">>, label |-> <<>>]

DocsLinks == << Anchor(<<"/", "docs", "/">>, <<"a">>, <<>>) >>

MenuLinks ==
    << Anchor(<<"/", "docs", "/">>, <<" ", "a">>, <<MenuItem>>),
       Anchor(<<"models">>, <<"b">>, <<PlainItem>>) >>

OutsideLinks ==
    << Anchor(<<"https", "://", "other.example.com", "/", "page">>, <<"b">>, <<>>),
       Anchor(<<"/", "logo", ".png">>, <<"c">>, <<>>) >>

ScriptPathLinks ==
    << Anchor(<<"/", "docs", "/", "node", ".js", "/", "intro">>, <<"a">>, <<>>),
       Anchor(<<"mailto", ":", "x@example.com">>, <<"b">>, <<>>) >>

MixedLinks ==
    << Anchor(<<"/", "logo", ".PNG">>, <<"c">>, <<>>),
       Anchor(<<"/", "docs", "/">>, <<" ">>, <<>>),
       Anchor(<<>>, <<"a">>, <<>>),
       Anchor(<<"http", "://", "example.com", "/", "docs", "/">>, <<"a">>, <<>>) >>

\* <ul class="menu"><li class="Menu-item"><span class="menu"><a ...>, and
\* <div class="me nu"><a ...>
NestedLinks ==
    << Anchor(<<"/", "docs", "/">>, <<"a">>,
              << [name |-> "span", class |-> <<"menu">>, label |-> <<>>],
                 MenuItem,
                 [name |-> "ul", class |-> <<"menu">>, label |-> <<>>] >>),
       Anchor(<<"models">>, <<"b">>,
              << [name |-> "div", class |-> <<"me", "nu">>, label |-> <<>>] >>) >>

\* <a href="http://[invalid">b</a><a href="/docs/">a</a>
BrokenLinks ==
    << Anchor(<<"http", "://", "[invalid">>, <<"b">>, <<>>),
       Anchor(<<"/", "docs", "/">>, <<"a">>, <<>>) >>

AnchorLists == {<<>>, DocsLinks, MenuLinks, OutsideLinks, ScriptPathLinks, MixedLinks}

NavElement(name, class, role, anchors) ==
    [name |-> name, class |-> class, id |-> "", role |-> role, anchors |-> anchors]

NavElements ==
    {NavElement("nav", <<>>, "navigation", l) : l \in AnchorLists}
        \cup {NavElement("nav", <<>>, "", l) : l \in {DocsLinks, MenuLinks, NestedLinks, BrokenLinks}}
        \cup {NavElement("div", <<"menu">>, "", l) : l \in {DocsLinks, MenuLinks, OutsideLinks}}
        \cup {NavElement("div", <<"navbar", "menu">>, "", MenuLinks),
              NavElement("div", <<>>, "", DocsLinks)}

Html(elements) == [empty |-> FALSE, elements |-> elements]

EmptyHtml == [empty |-> TRUE, elements |-> <<>>]

(***************************************************************************)
(* SpecPage: extract_navigation_from_html on a page of up to MaxElems      *)
(* elements, by the extractor of https://example.com.                      *)
(***************************************************************************)
InitPage ==
    /\ pc = "page"
    /\ extractor = NewExtractor(SiteBaseUrl)
    /\ html_content \in {Html(els) : els \in SeqsUpTo(NavElements, MaxElems)}
    /\ page_url \in PageUrls
    /\ navigation_data = NoneDict
    /\ IdleDedupe
    /\ content_filter = IdleFilter
    /\ IdleText
    /\ IdleSite
    /\ IdleHtml
    /\ IdleShared
    /\ IdleCrawl
    /\ IdleServer

ExtractPage ==
    /\ pc = "page"
    /\ navigation_data' = ExtractNavigationFromHtml(extractor, html_content, page_url)
    /\ pc' = IF navigation_data' = Raised THEN "page_raised" ELSE "extracted"
    /\ UNCHANGED <<dedupeVars, content_filter, textVars, extractor, html_content, page_url,
                   siteVars, htmlVars, sharedVars,
                   crawlVars, serverVars>>

NextPage == ExtractPage

SpecPage == InitPage /\ [][NextPage]_vars

(***************************************************************************)
(* SpecSite: enhance_navigation_extraction on up to MaxPages crawl results *)
(* of https://example.com.                                                 *)
(***************************************************************************)
CrawlResult(url, cleaned_html, extracted_content) ==
    [url |-> url, cleaned_html |-> cleaned_html, extracted_content |-> extracted_content]

CrawlResultPool ==
    { CrawlResult(WelcomeUrl, EmptyHtml, <<>>),
      CrawlResult(WelcomeUrl, Html(<<>>), <<[navigation |-> <<"<", "n", "a", "v", ">">>]>>),
      CrawlResult(WelcomeUrl, Html(<<NavElement("nav", <<>>, "", DocsLinks)>>), <<>>),
      CrawlResult(GuideUrl, Html(<<NavElement("nav", <<>>, "", MenuLinks)>>), <<>>),
      CrawlResult(WelcomeUrl,
                  Html(<<NavElement("div", <<"menu">>, "", MenuLinks),
                         NavElement("nav", <<>>, "", DocsLinks)>>), <<>>),
      CrawlResult(WelcomeUrl, Html(<<NavElement("nav", <<>>, "", OutsideLinks)>>), <<>>),
      CrawlResult(GuideUrl, Html(<<NavElement("nav", <<>>, "", BrokenLinks)>>), <<>>) }

InitSite ==
    /\ pc = "site"
    /\ crawl_results \in SeqsUpTo(CrawlResultPool, MaxPages)
    /\ enhanced_results = NoneDict
    /\ IdleDedupe
    /\ content_filter = IdleFilter
    /\ IdleText
    /\ IdlePage
    /\ IdleHtml
    /\ IdleShared
    /\ IdleCrawl
    /\ IdleServer

EnhanceSite ==
    /\ pc = "site"
    /\ enhanced_results' = EnhanceNavigationExtraction(crawl_results, SiteBaseUrl)
    /\ pc' = IF enhanced_results' = Raised THEN "site_raised" ELSE "enhanced"
    /\ UNCHANGED <<dedupeVars, content_filter, textVars, pageVars, crawl_results, htmlVars, sharedVars,
                   crawlVars, serverVars>>

NextSite == EnhanceSite

SpecSite == InitSite /\ [][NextSite]_vars

(***************************************************************************)
(* SpecFilter: filter_html of a ContentFilter built from a configuration,  *)
(* on the end-to-end document or on a document of up to MaxBlocks blocks,  *)
(* and filter_html once more on what it returned.                          *)
(***************************************************************************)
\* the blocks of a document: the parent of a node is its place in the block,
\* 0 for the document itself
HeaderBlock == << Tag(0, "header", <<>>, ""), NavigableString(1, <<"H", "e", "a", "d">>) >>

MainBlock ==
    << Tag(0, "main", <<>>, ""),
       Tag(1, "h1", <<>>, ""), NavigableString(2, <<"T", "i", "t", "l", "e">>),
       Tag(1, "p", <<>>, ""), NavigableString(4, <<"B", "o", "d", "y">>) >>

FooterBlock ==
    << Tag(0, "footer", <<>>, ""),
       Tag(1, "p", <<>>, ""),
       NavigableString(2, <<"u7248", "u6743", "u6240", "u6709", " ", "u00A9", " ",
                            "2", "0", "2", "5">>),
       Tag(1, "p", <<>>, ""),
       NavigableString(4, <<"u8054", "u7CFB", "u6211", "u4EEC">>) >>

AdBlock ==
    << Tag(0, "div", <<"ad">>, ""),
       NavigableString(1, <<"u5E7F", "u544A", "u5185", "u5BB9">>) >>

NewlineBlock == << NavigableString(0, <<"\n">>) >>

\* <p>ads<br/>ads</p>
RepeatBlock ==
    << Tag(0, "p", <<>>, ""), NavigableString(1, <<"a", "d", "s">>),
       Tag(1, "br", <<>>, ""), NavigableString(1, <<"a", "d", "s">>) >>

\* a text of 200 characters in an element whose class holds a keyword
LongAdBoxBlock ==
    << Tag(0, "div", <<"ad-box">>, ""), NavigableString(1, <<"a", "d", "s", "x197">>) >>

\* a text of 199 characters and one of 200
GateBlock ==
    << Tag(0, "div", <<>>, ""),
       Tag(1, "p", <<>>, ""), NavigableString(2, <<"a", "d", "s", "x196">>),
       Tag(1, "p", <<>>, ""), NavigableString(4, <<"x197", "A", "D", "S">>) >>

\* a text of 100 characters, then a child of 100: 200 in the parent, 100 when
\* the child is gone
ShrinkBlock ==
    << Tag(0, "div", <<>>, ""), NavigableString(1, <<"a", "d", "s", "x97">>),
       Tag(1, "p", <<>>, ""), NavigableString(3, <<"a", "d", "s", "x97">>) >>

NestedAdBlock ==
    << Tag(0, "div", <<"ad">>, ""), Tag(1, "div", <<"ad-box">>, ""),
       NavigableString(2, <<"s", "h", "a", "r", "e">>) >>

Blocks ==
    {MainBlock, FooterBlock, RepeatBlock, LongAdBoxBlock, GateBlock, NestedAdBlock}

EndToEndBlocks ==
    <<HeaderBlock, MainBlock, NewlineBlock, FooterBlock, NewlineBlock, AdBlock>>

RECURSIVE PlaceBlocks(_, _)
PlaceBlocks(blocks, nodes) ==
    IF blocks = <<>> THEN nodes
    ELSE LET off == Len(nodes)
             b == Head(blocks)
         IN PlaceBlocks(Tail(blocks),
                nodes \o [j \in DOMAIN b |->
                             [b[j] EXCEPT !.parent = IF @ = 0 THEN 1 ELSE off + @]])

\* the string made of the blocks, one after the other; no block: the empty string
Document(blocks) == Parse(PlaceBlocks(blocks, <<DocumentNode>>))

FirstChildSelector == [Sel("p", "", "", "", "", "") EXCEPT !.pseudo = "first-child"]

UnknownPseudoSelector == [Sel("p", "", "", "", "", "") EXCEPT !.pseudo = "unknown"]

FilterConfig(enabled, custom_selectors, custom_keywords) ==
    [enabled |-> enabled, custom_selectors |-> custom_selectors,
     custom_keywords |-> custom_keywords]

FilterConfigs ==
    { FilterConfig(<<"footer", "ads">>, <<>>, <<>>),
      FilterConfig(<<>>, <<>>, <<>>),
      FilterConfig(<<"header">>, << Sel("p", "", "", "", "", "") >>, <<>>),
      FilterConfig(<<>>, << FirstChildSelector >>, <<>>),
      FilterConfig(<<>>, << UnknownPseudoSelector, Sel("", "ad", "", "", "", ""),
                            Sel("", "", "", "class", "*=", "ad-") >>, <<>>),
      FilterConfig(<<>>, <<>>, << <<"A", "D">> >>),
      FilterConfig(<<"ads">>, <<>>, <<>>),
      FilterConfig(<<"header">>, <<>>, << <<"(">> >>),
      FilterConfig(<<>>, <<>>, << <<"a", ".", "s">>, <<"s", "h", "a", "r", "e">> >>) }

\* the selectors that match a tag of the document: their order in the list
\* decides what the count is
SelectorsInHtml(html, selectors) ==
    {s \in selectors : \E n \in DOMAIN html :
        html[n].kind = "tag" /\ MatchesSimple(s, html[n])}

\* the keywords that match a text of the document
KeywordsInHtml(html, keywords) ==
    {k \in keywords : \E n \in DOMAIN html :
        html[n].kind = "text" /\ RegexValid(k) /\ RegexSearch(k, html[n].text)}

DecomposedAccess == {"raises", "inert"}

InitFilter ==
    /\ pc = "html"
    /\ html_content \in {Document(bs) : bs \in SeqsUpTo(Blocks, MaxBlocks)
                                               \cup {EndToEndBlocks, <<ShrinkBlock>>}}
    /\ \E c \in FilterConfigs :
          content_filter \in
              ContentFilters(c.enabled, c.custom_selectors, c.custom_keywords,
                  SelectorsInHtml(html_content,
                                  CompileSelectors(c.enabled, c.custom_selectors)),
                  KeywordsInHtml(html_content,
                                 CompileKeywords(c.enabled, c.custom_keywords)))
    /\ decomposed \in DecomposedAccess
    /\ soup = IdleSoup
    /\ removed_count = 0
    /\ filtered_html = <<>>
    /\ refiltered = NoneDict
    /\ extractor = NoneDict
    /\ page_url = <<>>
    /\ navigation_data = NoneDict
    /\ IdleDedupe
    /\ IdleText
    /\ IdleSite
    /\ IdleShared
    /\ IdleCrawl
    /\ IdleServer

FilterHtmlCall ==
    /\ pc = "html"
    /\ LET r == FilterHtml(content_filter, html_content, decomposed)
       IN /\ soup' = r.soup
          /\ removed_count' = r.removed_count
          /\ filtered_html' = r.filtered_html
    /\ pc' = "html_filtered"
    /\ UNCHANGED <<dedupeVars, content_filter, textVars, pageVars, siteVars, decomposed,
                   refiltered, sharedVars,
                   crawlVars, serverVars>>

FilterHtmlAgain ==
    /\ pc = "html_filtered"
    /\ refiltered' = FilterHtml(content_filter, filtered_html, decomposed)
    /\ pc' = "html_refiltered"
    /\ UNCHANGED <<dedupeVars, content_filter, textVars, pageVars, siteVars, decomposed,
                   soup, removed_count, filtered_html, sharedVars,
                   crawlVars, serverVars>>

NextFilter == FilterHtmlCall \/ FilterHtmlAgain

SpecFilter == InitFilter /\ [][NextFilter]_vars

(***************************************************************************)
(* SpecShared: MaxCalls threads share one ContentFilter and one            *)
(* EnhancedNavigationExtractor; each makes one call of filter_html,        *)
(* filter_text or extract_navigation_from_html on its own page, and the    *)
(* steps of the calls interleave.  The tree, the counters and the lists a  *)
(* call builds are its local variables (calls[t].local); self is read at   *)
(* every step.  calls[t].concurrent holds the calls that were between      *)
(* their first step and their return when call t took its first step.      *)
(***************************************************************************)
Call(op, arg, url) ==
    [op |-> op, arg |-> arg, url |-> url, step |-> "called", concurrent |-> {},
     local |-> NoneDict, result |-> NoneDict]

SharedTasks ==
    { Call("filter_html", Document(<<NestedAdBlock, MainBlock>>), <<>>),
      Call("filter_html", Document(<<RepeatBlock>>), <<>>),
      Call("filter_text", JoinLines(<< <<"H", "e", "a", "d">>, <<"a", "d", "s">> >>), <<>>),
      Call("extract_navigation_from_html",
           Html(<<NavElement("nav", <<>>, "navigation", MenuLinks)>>), WelcomeUrl) }

\* ContentFilter(custom_selectors=['.ad', '[class*="ad-"]'], custom_keywords=['ads'])
SharedFilters ==
    LET selectors == << Sel("", "ad", "", "", "", ""), Sel("", "", "", "class", "*=", "ad-") >>
    IN ContentFilters(<<>>, selectors, << <<"a", "d", "s">> >>, {}, {})

\* the first step of call t
Enter(t, step, local) ==
    [calls EXCEPT ![t].step = step, ![t].local = local,
                  ![t].concurrent = {u \in DOMAIN calls : u # t /\ calls[u].step \notin {"called", "returned"}}]

Return(t, result) == [calls EXCEPT ![t].step = "returned", ![t].result = result]

InitShared ==
    /\ pc = "shared"
    /\ content_filter \in SharedFilters
    /\ extractor = NewExtractor(SiteBaseUrl)
    /\ decomposed \in DecomposedAccess
    /\ calls \in [1..MaxCalls -> SharedTasks]
    /\ IdleDedupe
    /\ IdleText
    /\ html_content = EmptyHtml
    /\ page_url = <<>>
    /\ navigation_data = NoneDict
    /\ IdleSite
    /\ soup = IdleSoup
    /\ removed_count = 0
    /\ filtered_html = <<>>
    /\ refiltered = NoneDict
    /\ IdleCrawl
    /\ IdleServer

\* filter_html, lines 163-168: the empty string returns, any other is parsed
ParseHtml(t) ==
    /\ calls[t].op = "filter_html" /\ calls[t].step = "called"
    /\ calls' = IF Len(calls[t].arg) = 1
                THEN [Enter(t, "returned", NoneDict) EXCEPT ![t].result = calls[t].arg]
                ELSE Enter(t, "selectors",
                           [i |-> 1, alive |-> DOMAIN calls[t].arg, removed_count |-> 0,
                            decisions |-> <<>>, raised |-> FALSE])
    /\ UNCHANGED content_filter

\* filter_html, lines 171-178: one turn of the loop over self.compiled_selectors
ApplySelectorConsuming(t) ==
    /\ calls[t].op = "filter_html" /\ calls[t].step = "selectors"
    /\ content_filter.compiled_selectors # <<>>
    /\ LET l == calls[t].local
           sel == SelectorLoop(calls[t].arg, <<Head(content_filter.compiled_selectors)>>,
                               l.alive, l.removed_count)
       IN calls' = [calls EXCEPT ![t].local =
                       [l EXCEPT !.alive = sel.alive, !.removed_count = sel.removed_count]]
    /\ content_filter' = [content_filter EXCEPT !.compiled_selectors = Tail(@)]

ApplySelector(t) ==
    /\ calls[t].op = "filter_html" /\ calls[t].step = "selectors"
    /\ calls[t].local.i <= Len(content_filter.compiled_selectors)
    /\ LET l == calls[t].local
           sel == SelectorLoop(calls[t].arg, <<content_filter.compiled_selectors[l.i]>>,
                               l.alive, l.removed_count)
       IN calls' = [calls EXCEPT ![t].local =
                       [l EXCEPT !.i = @ + 1, !.alive = sel.alive,
                                 !.removed_count = sel.removed_count]]
    /\ UNCHANGED content_filter

\* filter_html, lines 181-182: the keyword pass, after the last selector
KeywordPass(t) ==
    /\ calls[t].op = "filter_html" /\ calls[t].step = "selectors"
    /\ calls[t].local.i > Len(content_filter.compiled_selectors)
    /\ LET l == calls[t].local
           st == [alive |-> l.alive, removed_count |-> l.removed_count,
                  decisions |-> <<>>, raised |-> FALSE]
           kw == IF content_filter.compiled_keywords # <<>>
                 THEN FilterByKeywords(calls[t].arg, content_filter.compiled_keywords,
                                       decomposed, st)
                 ELSE st
       IN calls' = [calls EXCEPT ![t].step = "serialise",
                                 ![t].local = [l EXCEPT !.alive = kw.alive,
                                                        !.removed_count = kw.removed_count,
                                                        !.raised = kw.raised]]
    /\ UNCHANGED content_filter

\* filter_html, lines 187-191: str(soup), or the input after a failure
ReturnHtml(t) ==
    /\ calls[t].op = "filter_html" /\ calls[t].step = "serialise"
    /\ LET l == calls[t].local
           raised == l.raised \/ (1 \notin l.alive /\ decomposed = "raises")
       IN calls' = Return(t, IF raised THEN calls[t].arg ELSE Str(calls[t].arg, l.alive))
    /\ UNCHANGED content_filter

\* filter_text, lines 240-256: the loop over the lines
FilterTextLines(t) ==
    /\ calls[t].op = "filter_text" /\ calls[t].step = "called"
    /\ calls' = IF calls[t].arg = <<>> \/ content_filter.compiled_keywords = <<>>
                THEN [Enter(t, "returned", NoneDict) EXCEPT ![t].result = calls[t].arg]
                ELSE Enter(t, "join", FilterLines(SplitLines(calls[t].arg, <<>>),
                                                  content_filter.compiled_keywords))
    /\ UNCHANGED content_filter

\* filter_text, line 258: '\n'.join(filtered_lines)
ReturnText(t) ==
    /\ calls[t].op = "filter_text" /\ calls[t].step = "join"
    /\ calls' = Return(t, JoinLines(calls[t].local))
    /\ UNCHANGED content_filter

\* extract_navigation_from_html, lines 49-69: the scan of self.nav_selectors
ScanNavigation(t) ==
    /\ calls[t].op = "extract_navigation_from_html" /\ calls[t].step = "called"
    /\ calls' = Enter(t, "collect",
                      ScanLoop(extractor, calls[t].arg, calls[t].url, 1, 1, <<>>, NoneDict))
    /\ UNCHANGED content_filter

\* extract_navigation_from_html, lines 72-83, or the exception of the scan
ReturnNavigation(t) ==
    /\ calls[t].op = "extract_navigation_from_html" /\ calls[t].step = "collect"
    /\ LET scan == calls[t].local
           unique == DeduplicateLinks(AllLinks(scan.found_navigations))
       IN calls' = Return(t, IF scan = Raised THEN Raised
                             ELSE [found_navigations |-> scan.found_navigations,
                                   primary_navigation |-> scan.primary_navigation,
                                   all_nav_links |-> unique,
                                   navigation_structure |-> BuildNavigationStructure(unique)])
    /\ UNCHANGED content_filter

NextShared ==
    /\ pc = "shared"
    /\ \E t \in DOMAIN calls :
          \/ ParseHtml(t)
          \/ ApplySelector(t)
          \/ KeywordPass(t)
          \/ ReturnHtml(t)
          \/ FilterTextLines(t)
          \/ ReturnText(t)
          \/ ScanNavigation(t)
          \/ ReturnNavigation(t)
    /\ UNCHANGED <<pc, dedupeVars, textVars, pageVars, siteVars, htmlVars,
                   crawlVars, serverVars>>

SpecShared == InitShared /\ [][NextShared]_vars

(***************************************************************************)
(* SpecCrawl: WebsiteCrawler.crawl_all_content over up to MaxUrls URLs of  *)
(* https://example.com in batches, then _save_final_results with           *)
(* _process_enhanced_navigation.  A dictionary is a function of its keys;  *)
(* crawled_content, which is iterated, is the list of its items in         *)
(* insertion order.  extracted_content is what json.loads gives: a list of *)
(* items, each a dictionary or not.                                        *)
(***************************************************************************)
\* d.get(key, default)
DictGet(d, key, default) == IF key \in DOMAIN d THEN d[key] ELSE default

\* d[key] = value, d the list of the items of a dictionary
DictSet(d, key, value) ==
    IF \E i \in DOMAIN d : d[i].key = key
    THEN [i \in DOMAIN d |-> IF d[i].key = key THEN [key |-> key, value |-> value] ELSE d[i]]
    ELSE Append(d, [key |-> key, value |-> value])

ModelsUrl == <<"https", "://", "example.com", "/", "models">>

CrawlUrls == {WelcomeUrl, GuideUrl, ModelsUrl}

\* the lists of URLs that differ from each other, as discover_website_structure
\* returns them
UrlLists == {l \in SeqsUpTo(CrawlUrls, MaxUrls) : \A i, j \in DOMAIN l : i # j => l[i] # l[j]}

\* what the engine answers for one URL: a failure, or a page with its cleaned
\* HTML and its extracted content
EngineAnswers ==
    { [success |-> FALSE, cleaned_html |-> EmptyHtml, extracted_content |-> <<>>],
      [success |-> TRUE, cleaned_html |-> Html(<<NavElement("nav", <<>>, "", DocsLinks)>>),
       extracted_content |-> <<>>],
      [success |-> TRUE, cleaned_html |-> Html(<<NavElement("div", <<"menu">>, "", MenuLinks)>>),
       extracted_content |-> <<[type |-> "dict", title |-> <<"T">>,
                                navigation |-> <<"<", "n", "a", "v", ">">>]>>],
      [success |-> TRUE, cleaned_html |-> Html(<<>>),
       extracted_content |-> <<[type |-> "dict", title |-> <<"T">>]>>],
      [success |-> TRUE, cleaned_html |-> Html(<<NavElement("nav", <<>>, "", DocsLinks)>>),
       extracted_content |-> <<[type |-> "str"]>>] }

\* the result object of the engine for a URL
EngineResult(url, answer) ==
    [url |-> url, success |-> answer.success, cleaned_html |-> answer.cleaned_html,
     extracted_content |-> answer.extracted_content]

\* WebsiteCrawler.__init__ with a content_filter_config: the filters of no
\* rule and of the custom selector .menu
CrawlerFilters ==
    UNION {ContentFilters(<<>>, cs, <<>>, {}, {}) : cs \in {<<>>, <<Sel("", "menu", "", "", "", "")>>}}

NewCrawler(base_url, filter) ==
    [base_url |-> base_url, content_filter |-> filter, crawled_content |-> <<>>,
     stats |-> [total_crawled |-> 0, failed_crawls |-> 0, filtered_elements |-> 0]]

\* filter_html on a page of navigation elements: the elements a compiled
\* selector matches are removed
FilterNavHtml(filter, html) ==
    IF html.empty THEN html
    ELSE Html(SelectSeq(html.elements,
                 LAMBDA el : ~\E i \in DOMAIN filter.compiled_selectors :
                                 MatchesSimple(filter.compiled_selectors[i], el)))

\* _process_crawl_result raises: first_item.get on an item that is no
\* dictionary
ProcessCrawlResultRaises(result) ==
    /\ result.extracted_content # <<>>
    /\ result.extracted_content[1].type # "dict"

\* content_data of _process_crawl_result
ContentData(self, result) ==
    [url |-> result.url,
     title |-> IF result.extracted_content # <<>>
               THEN DictGet(result.extracted_content[1], "title", <<>>) ELSE <<>>,
     cleaned_html |-> FilterNavHtml(self.content_filter, result.cleaned_html),
     extracted_content |-> result.extracted_content]

\* _process_crawl_result
ProcessCrawlResult(self, result) ==
    [self EXCEPT
        !.stats.filtered_elements =
            IF FilterNavHtml(self.content_filter, result.cleaned_html) # result.cleaned_html
            THEN @ + 1 ELSE @,
        !.crawled_content = DictSet(@, result.url, ContentData(self, result))]

\* the crawl_result _process_enhanced_navigation builds of an item of
\* crawled_content
EnhancedCrawlResult(item) ==
    [url |-> item.key,
     title |-> DictGet(item.value, "title", <<>>),
     html_content |-> DictGet(item.value, "html", EmptyHtml),
     navigation |-> DictGet(item.value, "navigation", <<>>),
     navigation_links |-> DictGet(item.value, "navigation_links", <<>>)]

\* the three crawl_result.get of extract_navigation_from_crawl_result
CrawlResultGet(crawl_result) ==
    CrawlResult(DictGet(crawl_result, "url", None),
                DictGet(crawl_result, "cleaned_html", EmptyHtml),
                DictGet(crawl_result, "extracted_content", <<>>))

\* _process_enhanced_navigation: what it writes to enhanced_navigation.json,
\* None when enhance_navigation_extraction raises
ProcessEnhancedNavigation(self) ==
    IF \E i \in DOMAIN self.crawled_content :
          /\ ~CrawlResultGet(EnhancedCrawlResult(self.crawled_content[i])).cleaned_html.empty
          /\ ExtractionRaises(NewExtractor(self.base_url),
                              CrawlResultGet(EnhancedCrawlResult(self.crawled_content[i])).cleaned_html,
                              self.crawled_content[i].key)
    THEN NoneDict
    ELSE EnhanceNavigationExtraction(
             [i \in DOMAIN self.crawled_content |->
                 CrawlResultGet(EnhancedCrawlResult(self.crawled_content[i]))],
             self.base_url)

\* urls[i:i + batch_size]
BatchUrls == SubSeq(urls, batch_start + 1,
                    IF batch_start + batch_size < Len(urls)
                    THEN batch_start + batch_size ELSE Len(urls))

InitCrawl ==
    /\ pc = "crawl"
    /\ crawler \in {NewCrawler(SiteBaseUrl, f) : f \in CrawlerFilters}
    /\ urls \in UrlLists
    /\ batch_size \in 1..MaxUrls
    /\ engine \in [CrawlUrls -> EngineAnswers]
    /\ \A u \in CrawlUrls : (\A i \in DOMAIN urls : urls[i] # u) => engine[u] = [success |-> FALSE, cleaned_html |-> EmptyHtml, extracted_content |-> <<>>]
    /\ batch_start = 0
    /\ batch_results = <<>>
    /\ successful_crawls = 0
    /\ failed_crawls = 0
    /\ enhanced_navigation_file = NoneDict
    /\ IdleDedupe
    /\ content_filter = IdleFilter
    /\ IdleText
    /\ IdlePage
    /\ IdleSite
    /\ IdleHtml
    /\ IdleShared
    /\ IdleServer

\* crawl_all_content, lines 256-259: arun_many returns the results of a batch
ArunMany ==
    /\ pc = "crawl"
    /\ batch_start < Len(urls)
    /\ batch_results' = [i \in DOMAIN BatchUrls |-> EngineResult(BatchUrls[i], engine[BatchUrls[i]])]
    /\ pc' = "batch"
    /\ UNCHANGED <<crawler, urls, batch_size, engine, batch_start, successful_crawls,
                   failed_crawls, enhanced_navigation_file>>

\* crawl_all_content, lines 256-259 and 271-273: arun_many raises
ArunManyRaises ==
    /\ pc = "crawl"
    /\ batch_start < Len(urls)
    /\ failed_crawls' = failed_crawls + Len(BatchUrls)
    /\ pc' = "sleep"
    /\ UNCHANGED <<crawler, urls, batch_size, engine, batch_start, batch_results,
                   successful_crawls, enhanced_navigation_file>>

\* crawl_all_content, lines 262-273: one turn of the loop over the results
ProcessResult ==
    /\ pc = "batch"
    /\ LET result == Head(batch_results) IN
       IF result.success /\ ProcessCrawlResultRaises(result)
       THEN /\ failed_crawls' = failed_crawls + Len(BatchUrls)
            /\ batch_results' = <<>>
            /\ pc' = "sleep"
            /\ UNCHANGED <<crawler, successful_crawls>>
       ELSE /\ IF result.success
               THEN /\ crawler' = ProcessCrawlResult(crawler, result)
                    /\ successful_crawls' = successful_crawls + 1
                    /\ UNCHANGED failed_crawls
               ELSE /\ failed_crawls' = failed_crawls + 1
                    /\ UNCHANGED <<crawler, successful_crawls>>
            /\ batch_results' = Tail(batch_results)
            /\ pc' = IF Tail(batch_results) = <<>> THEN "sleep" ELSE "batch"
    /\ UNCHANGED <<urls, batch_size, engine, batch_start, enhanced_navigation_file>>

\* crawl_all_content, line 276, and the next turn of the loop over the batches
Sleep ==
    /\ pc = "sleep"
    /\ batch_start' = batch_start + batch_size
    /\ pc' = "crawl"
    /\ UNCHANGED <<crawler, urls, batch_size, engine, batch_results, successful_crawls,
                   failed_crawls, enhanced_navigation_file>>

\* crawl_all_content, lines 278-292, with _save_final_results
SaveFinalResults ==
    /\ pc = "crawl"
    /\ batch_start >= Len(urls)
    /\ crawler' = [crawler EXCEPT !.stats.total_crawled = successful_crawls,
                                  !.stats.failed_crawls = failed_crawls]
    /\ enhanced_navigation_file' = ProcessEnhancedNavigation(crawler)
    /\ pc' = "crawled"
    /\ UNCHANGED <<urls, batch_size, engine, batch_start, batch_results, successful_crawls,
                   failed_crawls>>

NextCrawl ==
    /\ \/ ArunMany
       \/ ArunManyRaises
       \/ ProcessResult
       \/ Sleep
       \/ SaveFinalResults
    /\ UNCHANGED <<dedupeVars, content_filter, textVars, pageVars, siteVars, htmlVars,
                   sharedVars, serverVars>>

SpecCrawl == InitCrawl /\ [][NextCrawl]_vars

(***************************************************************************)
(* SpecTask: CrawlerTask.run of web/server.py on one task: discovery, the  *)
(* crawl of the discovered URLs in batches, the navigation structure.  The *)
(* log of the task holds the first message of each phase and the last of   *)
(* run.  socketio.emit and logger.info return without raising.             *)
(***************************************************************************)
\* the configuration posted to /api/crawl: complete when it has the keys run
\* reads, beyond target_url
TaskConfigs ==
    [target_url : {WelcomeUrl}, complete : BOOLEAN, batch_size : 1..MaxUrls]

\* CrawlerTask.__init__
NewCrawlerTask(task_id, config) ==
    [task_id |-> task_id, config |-> config, status |-> "pending", progress |-> 0,
     stats |-> [discovered |-> 0, crawled |-> 0, failed |-> 0, filtered |-> 0],
     results |-> <<>>, log |-> <<>>, error |-> None, discovered_urls |-> {}]

\* update_status with a progress
UpdateStatus(self, status, progress) ==
    [self EXCEPT !.status = status, !.progress = progress]

\* add_log
AddLog(self, message) == [self EXCEPT !.log = Append(@, message)]

\* add_result
AddResult(self, result) ==
    [self EXCEPT !.results = Append(@, result), !.stats.crawled = Len(self.results) + 1]

\* the except of run
RunFailed(self, e) ==
    AddLog([self EXCEPT !.status = "failed", !.error = e], "failed")

\* progress of a batch that counts down from 90
BatchProgressDown(i, n) == 90 - (i * 50) \div n

\* 40 + int((i / len(urls)) * 50)
BatchProgress(i, n) == 40 + (i * 50) \div n

\* what the engine is for a task: installed or not, what the deep crawl of
\* discovery finds or that it raises, and its answer for each URL
TaskAnswers ==
    { [success |-> FALSE, cleaned_html |-> EmptyHtml, extracted_content |-> <<>>],
      [success |-> TRUE, cleaned_html |-> EmptyHtml,
       extracted_content |-> <<[type |-> "dict", title |-> <<"T">>]>>],
      [success |-> TRUE, cleaned_html |-> EmptyHtml,
       extracted_content |-> <<[type |-> "str"]>>] }

FailedAnswer == [success |-> FALSE, cleaned_html |-> EmptyHtml, extracted_content |-> <<>>]

TaskEngines ==
    {e \in [installed : BOOLEAN, raises : BOOLEAN,
            found : {s \in SUBSET CrawlUrls : Cardinality(s) <= MaxUrls},
            answers : [CrawlUrls -> TaskAnswers]] :
        /\ \A u \in CrawlUrls \ (e.found \cup {WelcomeUrl}) : e.answers[u] = FailedAnswer
        /\ e.raises => e.found = {}
        /\ ~e.installed => (~e.raises /\ e.found = {})}

\* CrawlerTask._process_crawl_result raises: first_item.get on an item that
\* is no dictionary
TaskProcessCrawlResultRaises(result) ==
    /\ result.extracted_content # <<>>
    /\ result.extracted_content[1].type # "dict"

InitTask ==
    /\ pc = "task_pending"
    /\ task \in {NewCrawlerTask(1, c) : c \in TaskConfigs}
    /\ engine \in TaskEngines
    /\ crawler = NoneDict
    /\ urls = <<>>
    /\ batch_size = 0
    /\ batch_start = 0
    /\ batch_results = <<>>
    /\ successful_crawls = 0
    /\ failed_crawls = 0
    /\ enhanced_navigation_file = NoneDict
    /\ tasks = <<>>
    /\ task_queue = <<>>
    /\ worker = NoneDict
    /\ requests = <<>>
    /\ submitted = <<>>
    /\ executed = <<>>
    /\ IdleDedupe
    /\ content_filter = IdleFilter
    /\ IdleText
    /\ IdlePage
    /\ IdleSite
    /\ IdleHtml
    /\ IdleShared

\* run, lines 131-138: without crawl4ai the task fails at once
Run ==
    /\ pc = "task_pending"
    /\ IF ~engine.installed
       THEN /\ task' = [task EXCEPT !.status = "failed", !.error = <<"crawl4ai">>]
            /\ pc' = "task_done"
       ELSE /\ task' = AddLog(UpdateStatus(task, "running", 0), "start")
            /\ pc' = "task_discover"
    /\ UNCHANGED <<urls, batch_size, batch_start, batch_results, successful_crawls,
                   failed_crawls>>

\* discover_website_structure, and the except of run when it raises: on a
\* key the configuration lacks, or in the engine
DiscoverWebsiteStructure ==
    /\ pc = "task_discover"
    /\ LET entered == AddLog(UpdateStatus(task, "running", 10), "discover")
           unique_urls == engine.found \cup {task.config.target_url}
       IN IF ~task.config.complete \/ engine.raises
          THEN /\ task' = RunFailed(entered, <<"error">>)
               /\ pc' = "task_done"
          ELSE /\ task' = AddLog(UpdateStatus(
                              [entered EXCEPT !.discovered_urls = engine.found,
                                              !.stats.discovered = Cardinality(unique_urls)],
                              "running", 30), "discovered")
               /\ pc' = "task_crawl"
    /\ UNCHANGED <<urls, batch_size, batch_start, batch_results, successful_crawls,
                   failed_crawls>>

\* crawl_all_content, lines 271-293
CrawlAllContent ==
    /\ pc = "task_crawl"
    /\ urls' \in IF task.discovered_urls = {} THEN {<<task.config.target_url>>}
                 ELSE ListsOfSet(task.discovered_urls, task.discovered_urls)
    /\ task' = AddLog(UpdateStatus(task, "running", 40), "crawl")
    /\ batch_size' = task.config.batch_size
    /\ batch_start' = 0
    /\ successful_crawls' = 0
    /\ failed_crawls' = 0
    /\ pc' = "task_batches"
    /\ UNCHANGED batch_results

\* crawl_all_content, lines 296-306: the progress of the batch and arun_many
TaskArunMany ==
    /\ pc = "task_batches"
    /\ batch_start < Len(urls)
    /\ task' = UpdateStatus(task, "running", BatchProgress(batch_start, Len(urls)))
    /\ batch_results' = [i \in DOMAIN BatchUrls |->
                            EngineResult(BatchUrls[i], engine.answers[BatchUrls[i]])]
    /\ pc' = "task_batch"
    /\ UNCHANGED <<urls, batch_size, batch_start, successful_crawls, failed_crawls>>

\* crawl_all_content, lines 296-306 and 318-320: arun_many raises
TaskArunManyRaises ==
    /\ pc = "task_batches"
    /\ batch_start < Len(urls)
    /\ task' = UpdateStatus(task, "running", BatchProgress(batch_start, Len(urls)))
    /\ failed_crawls' = failed_crawls + Len(BatchUrls)
    /\ pc' = "task_sleep"
    /\ UNCHANGED <<urls, batch_size, batch_start, batch_results, successful_crawls>>

\* crawl_all_content, lines 308-320: one turn of the loop over the results
TaskResult ==
    /\ pc = "task_batch"
    /\ LET result == Head(batch_results) IN
       IF result.success /\ TaskProcessCrawlResultRaises(result)
       THEN /\ failed_crawls' = failed_crawls + Len(BatchUrls)
            /\ batch_results' = <<>>
            /\ pc' = "task_sleep"
            /\ UNCHANGED <<task, successful_crawls>>
       ELSE /\ IF result.success
               THEN /\ task' = AddResult(task, result.url)
                    /\ successful_crawls' = successful_crawls + 1
                    /\ UNCHANGED failed_crawls
               ELSE /\ failed_crawls' = failed_crawls + 1
                    /\ UNCHANGED <<task, successful_crawls>>
            /\ batch_results' = Tail(batch_results)
            /\ pc' = IF Tail(batch_results) = <<>> THEN "task_sleep" ELSE "task_batch"
    /\ UNCHANGED <<urls, batch_size, batch_start>>

\* crawl_all_content, line 323, and the next turn of the loop over the batches
TaskSleep ==
    /\ pc = "task_sleep"
    /\ batch_start' = batch_start + batch_size
    /\ pc' = "task_batches"
    /\ UNCHANGED <<task, urls, batch_size, batch_results, successful_crawls, failed_crawls>>

\* crawl_all_content, lines 325-329
CrawlAllContentEnd ==
    /\ pc = "task_batches"
    /\ batch_start >= Len(urls)
    /\ task' = AddLog(UpdateStatus([task EXCEPT !.stats.crawled = successful_crawls,
                                                !.stats.failed = failed_crawls],
                                   "running", 90), "crawled")
    /\ pc' = "task_navigation"
    /\ UNCHANGED <<urls, batch_size, batch_start, batch_results, successful_crawls,
                   failed_crawls>>

\* run, lines 146-152: generate_navigation_structure and the completion
Complete ==
    /\ pc = "task_navigation"
    /\ task' = AddLog(UpdateStatus(AddLog(task, "navigation"), "completed", 100), "done")
    /\ pc' = "task_done"
    /\ UNCHANGED <<urls, batch_size, batch_start, batch_results, successful_crawls,
                   failed_crawls>>

NextTask ==
    /\ \/ Run
       \/ DiscoverWebsiteStructure
       \/ CrawlAllContent
       \/ TaskArunMany
       \/ TaskArunManyRaises
       \/ TaskResult
       \/ TaskSleep
       \/ CrawlAllContentEnd
       \/ Complete
    /\ UNCHANGED <<dedupeVars, content_filter, textVars, pageVars, siteVars, htmlVars,
                   sharedVars, crawler, engine, enhanced_navigation_file, tasks, task_queue,
                   worker, requests, submitted, executed>>

SpecTask == InitTask /\ [][NextTask]_vars

(***************************************************************************)
(* SpecServer: the requests to /api/crawl and the worker thread.  Each     *)
(* request is a call of start_crawl in a thread of its own, so the calls   *)
(* interleave between the registration of the task and task_queue.put.     *)
(* The one worker thread takes a task from the queue and runs it to its    *)
(* end before it takes the next.  Of run, the steps are its begin, which   *)
(* sets the status running or failed, and its end, which sets completed or *)
(* failed; the phases between are those of SpecTask.  uuid4 gives every    *)
(* request an id no other has: the place of the request.                   *)
(***************************************************************************)
\* the bodies posted to /api/crawl: without and with a target_url
ServerConfigs ==
    { [target_url |-> <<>>, complete |-> TRUE, batch_size |-> 1],
      [target_url |-> WelcomeUrl, complete |-> TRUE, batch_size |-> 1] }

\* tasks[task_id], tasks the list of the items of the dictionary
TaskOf(task_id) == (CHOOSE item \in Range(tasks) : item.key = task_id).value

\* queue.Queue.put
QueuePut(q, item) == Append(q, item)

\* a queue that hands out its newest item
QueueGetNewest(q) == [item |-> q[Len(q)], rest |-> SubSeq(q, 1, Len(q) - 1)]

\* queue.Queue.get: the oldest item
QueueGet(q) == [item |-> Head(q), rest |-> Tail(q)]

\* task_worker before its loop; CRAWL4AI_AVAILABLE is fixed at import
InitServer ==
    /\ pc = "serving"
    /\ tasks = <<>>
    /\ task_queue = <<>>
    /\ worker = [pc |-> "get", task |-> 0]
    /\ requests = <<>>
    /\ submitted = <<>>
    /\ executed = <<>>
    /\ task = NoneDict
    /\ engine \in [installed : BOOLEAN]
    /\ crawler = NoneDict
    /\ urls = <<>>
    /\ batch_size = 0
    /\ batch_start = 0
    /\ batch_results = <<>>
    /\ successful_crawls = 0
    /\ failed_crawls = 0
    /\ enhanced_navigation_file = NoneDict
    /\ IdleDedupe
    /\ content_filter = IdleFilter
    /\ IdleText
    /\ IdlePage
    /\ IdleSite
    /\ IdleHtml
    /\ IdleShared

\* a POST to /api/crawl arrives
Post ==
    /\ Len(requests) < MaxTasks
    /\ \E config \in ServerConfigs :
          requests' = Append(requests, [config |-> config, pc |-> "start", task_id |-> 0,
                                        response |-> 0])
    /\ UNCHANGED <<tasks, task_queue, worker, submitted, executed>>

\* start_crawl, lines 555-565: the validation and the registration
StartCrawl ==
    /\ \E r \in DOMAIN requests :
          /\ requests[r].pc = "start"
          /\ IF requests[r].config.target_url = <<>>
             THEN /\ requests' = [requests EXCEPT ![r].pc = "done", ![r].response = 400]
                  /\ UNCHANGED tasks
             ELSE /\ tasks' = DictSet(tasks, r, NewCrawlerTask(r, requests[r].config))
                  /\ requests' = [requests EXCEPT ![r].pc = "registered", ![r].task_id = r]
    /\ UNCHANGED <<task_queue, worker, submitted, executed>>

\* start_crawl, lines 568-574: task_queue.put and the answer
StartCrawlPut ==
    /\ \E r \in DOMAIN requests :
          /\ requests[r].pc = "registered"
          /\ task_queue' = QueuePut(task_queue, requests[r].task_id)
          /\ submitted' = Append(submitted, requests[r].task_id)
          /\ requests' = [requests EXCEPT ![r].pc = "done", ![r].response = 200]
    /\ UNCHANGED <<tasks, worker, executed>>

\* task_worker, line 522: task_queue.get returns a task; on queue.Empty the
\* loop tries again
WorkerGet ==
    /\ worker.pc = "get"
    /\ task_queue # <<>>
    /\ worker' = [pc |-> "run", task |-> QueueGet(task_queue).item]
    /\ task_queue' = QueueGet(task_queue).rest
    /\ executed' = Append(executed, QueueGet(task_queue).item)
    /\ UNCHANGED <<tasks, requests, submitted>>

\* run, lines 131-138, called at line 527 of task_worker
RunBegin ==
    /\ worker.pc = "run"
    /\ IF ~engine.installed
       THEN /\ tasks' = DictSet(tasks, worker.task,
                                [TaskOf(worker.task) EXCEPT !.status = "failed",
                                                            !.error = <<"crawl4ai">>])
            /\ worker' = [pc |-> "get", task |-> 0]
       ELSE /\ tasks' = DictSet(tasks, worker.task,
                                AddLog(UpdateStatus(TaskOf(worker.task), "running", 0), "start"))
            /\ worker' = [worker EXCEPT !.pc = "running"]
    /\ UNCHANGED <<task_queue, requests, submitted, executed>>

\* run, lines 140-152: the phases end and the task is completed; the worker
\* is back at the head of its loop
RunCompleted ==
    /\ worker.pc = "running"
    /\ tasks' = DictSet(tasks, worker.task,
                        AddLog(UpdateStatus(TaskOf(worker.task), "completed", 100), "done"))
    /\ worker' = [pc |-> "get", task |-> 0]
    /\ UNCHANGED <<task_queue, requests, submitted, executed>>

\* run, lines 155-158: a phase raises, the except of run marks the task as
\* failed and run returns; the worker is back at the head of its loop
RunRaises ==
    /\ worker.pc = "running"
    /\ tasks' = DictSet(tasks, worker.task, RunFailed(TaskOf(worker.task), <<"error">>))
    /\ worker' = [pc |-> "get", task |-> 0]
    /\ UNCHANGED <<task_queue, requests, submitted, executed>>

NextServer ==
    /\ \/ Post
       \/ StartCrawl
       \/ StartCrawlPut
       \/ WorkerGet
       \/ RunBegin
       \/ RunCompleted
       \/ RunRaises
    /\ UNCHANGED <<pc, dedupeVars, content_filter, textVars, pageVars, siteVars, htmlVars,
                   sharedVars, crawlVars, task>>

SpecServer == InitServer /\ [][NextServer]_vars

\* the steps of the worker thread
WorkerStep ==
    /\ \/ WorkerGet
       \/ RunBegin
       \/ RunCompleted
       \/ RunRaises
    /\ UNCHANGED <<pc, dedupeVars, content_filter, textVars, pageVars, siteVars, htmlVars,
                   sharedVars, crawlVars, task>>

\* the worker is a thread of its own in a loop without exit (nothing puts the
\* None of line 523), and every run returns: the thread takes its next step
\* whenever it has one
SpecServerFair == SpecServer /\ WF_vars(WorkerStep)

(***************************************************************************)
(* Claims about _deduplicate_links and _build_navigation_structure.        *)
(***************************************************************************)
\* the key the claims speak of: text, a bar, url
TextUrlKey(link) == link.text \o <<"|">> \o link.url

KeysOf(ls) == {TextUrlKey(ls[i]) : i \in DOMAIN ls}

FirstIndex(ls, k) ==
    CHOOSE i \in DOMAIN ls :
        TextUrlKey(ls[i]) = k /\ \A j \in 1..(i - 1) : TextUrlKey(ls[j]) # k

\* C1: _deduplicate_links returns, for each distinct key text|url of its
\* input, exactly one entry, the one at the lowest input index carrying that
\* key, in order of first occurrence; an input whose keys are all distinct is
\* returned as it is.
C1_DedupFirstOccurrence ==
    pc \in {"deduplicated", "structured"} =>
        /\ \A k \in KeysOf(links) :
              Cardinality({j \in DOMAIN unique_links : TextUrlKey(unique_links[j]) = k}) = 1
        /\ \A j \in DOMAIN unique_links :
              /\ TextUrlKey(unique_links[j]) \in KeysOf(links)
              /\ unique_links[j] = links[FirstIndex(links, TextUrlKey(unique_links[j]))]
        /\ \A i, j \in DOMAIN unique_links :
              i < j => FirstIndex(links, TextUrlKey(unique_links[i]))
                           < FirstIndex(links, TextUrlKey(unique_links[j]))
        /\ (Cardinality(KeysOf(links)) = Len(links) => unique_links = links)

\* C1 witness: three entries, the first and the last with the same key but
\* not the same level, reduced to two.
C1_Witness ==
    /\ pc = "deduplicated"
    /\ Len(links) = 3
    /\ TextUrlKey(links[1]) = TextUrlKey(links[3])
    /\ TextUrlKey(links[1]) # TextUrlKey(links[2])
    /\ links[1].level # links[3].level
    /\ unique_links = <<links[1], links[2]>>

\* the place a stable sort by level gives the link at index i of ls
SortedPlace(ls, i) ==
    Cardinality({j \in DOMAIN ls : ls[j].level < ls[i].level})
        + Cardinality({j \in 1..i : ls[j].level = ls[i].level})

\* C10: navigation_structure has one item per link of the deduplicated list,
\* ordered by level non-decreasing, links of equal level in the order of the
\* list, each item carrying its link's text, url, level and parent_text.
C10_StructureStableByLevel ==
    pc = "structured" =>
        /\ Len(navigation_structure) = Len(unique_links)
        /\ \A i, j \in DOMAIN navigation_structure :
              i < j => navigation_structure[i].level <= navigation_structure[j].level
        /\ \A i \in DOMAIN unique_links :
              LET item == navigation_structure[SortedPlace(unique_links, i)] IN
              /\ item.text = unique_links[i].text
              /\ item.url = unique_links[i].url
              /\ item.level = unique_links[i].level
              /\ item.parent_text = unique_links[i].parent_text

\* C10 witness: three links of levels 1, 0, 1: the second moves to the front
\* and the other two keep their order.
C10_Witness ==
    /\ pc = "structured"
    /\ Len(unique_links) = 3
    /\ unique_links[1].level = 1
    /\ unique_links[2].level = 0
    /\ unique_links[3].level = 1
    /\ unique_links[1].parent_text # unique_links[3].parent_text
    /\ navigation_structure[1].url = unique_links[2].url
    /\ navigation_structure[3].parent_text = unique_links[3].parent_text

(***************************************************************************)
(* Claims about filter_text.                                               *)
(***************************************************************************)
ContainsIgnoringCase(s, k) ==
    \E i \in 0..(Len(s) - Len(k)) :
        \A j \in 1..Len(k) : LowerPiece(s[i + j]) = LowerPiece(k[j])

LineToDrop(line) ==
    /\ StrLen(Strip(line)) < 100
    /\ \E k \in Range(content_filter.compiled_keywords) : ContainsIgnoringCase(line, k)

\* the lines of ls that are not to drop, in their order
KeptLines(ls) ==
    LET kept == {i \in DOMAIN ls : ~LineToDrop(ls[i])}
    IN [r \in 1..Cardinality(kept) |->
           ls[CHOOSE i \in kept : Cardinality({j \in kept : j <= i}) = r]]

\* C7: with a non-empty keyword set, filter_text drops a line if and only if
\* its trimmed length is below 100 and it contains a keyword as a
\* case-insensitive substring; the kept lines come out unmodified and in order.
C7_TextLineGate ==
    (pc = "text_filtered" /\ content_filter.compiled_keywords # <<>>) =>
        filtered_text = JoinLines(KeptLines(SplitLines(text_content, <<>>)))

\* C7 witness: a line of 101 characters, 99 when trimmed, is dropped, a line
\* of 100 characters with the same keyword is kept, and "Head" is dropped for
\* the keyword AD.
C7_Witness ==
    /\ pc = "text_filtered"
    /\ text_content = JoinLines(<< <<" ", "a", "d", "s", "x96", " ">>,
                                   <<"a", "d", "s", "x97">>,
                                   <<"H", "e", "a", "d">> >>)
    /\ <<"A", "D">> \in Range(content_filter.compiled_keywords)
    /\ filtered_text = <<"a", "d", "s", "x97">>

(***************************************************************************)
(* Claims about extract_navigation_from_html.                              *)
(***************************************************************************)
ClaimAssetExtensions == {".pdf", ".jpg", ".png", ".gif", ".css", ".js", ".ico"}

\* host equal to the site host, scheme http or https, and a path that does
\* not end in an asset extension
ClaimValidLink(url) ==
    /\ UrlNetloc(url) = UrlNetloc(SiteBaseUrl)
    /\ UrlScheme(url) \in {"http", "https"}
    /\ LET path == UrlPath(url)
       IN path = <<>> \/ LowerPiece(path[Len(path)]) \notin ClaimAssetExtensions

\* the candidate of selector si and element ei has an entry for anchor k
HasLinkEntry(si, ei, k) ==
    LET el == html_content.elements[ei]
        a == el.anchors[k]
    IN \E n \in DOMAIN navigation_data.found_navigations :
          LET nav == navigation_data.found_navigations[n] IN
          /\ nav.selector = nav_selectors[si]
          /\ nav.html = el
          /\ \E l \in DOMAIN nav.links :
                /\ nav.links[l].href = a.href
                /\ nav.links[l].text = Strip(a.text)
                /\ nav.links[l].url = UrlJoin(page_url, a.href)

\* C4: an anchor with non-empty href and text inside a matched navigation
\* element produces a link entry if and only if its resolved URL has the site
\* host, scheme http or https, and a path that does not end in an asset
\* extension.
C4_LinkEntryIffValid ==
    pc = "extracted" =>
        \A si \in DOMAIN nav_selectors, ei \in DOMAIN html_content.elements :
            MatchesSimple(nav_selectors[si], html_content.elements[ei]) =>
                \A k \in DOMAIN html_content.elements[ei].anchors :
                    LET a == html_content.elements[ei].anchors[k] IN
                    (a.href # <<>> /\ Strip(a.text) # <<>>) =>
                        (HasLinkEntry(si, ei, k) <=> ClaimValidLink(UrlJoin(page_url, a.href)))

\* selector si matches element ei and the element has a valid link
Qualifies(si, ei) ==
    LET el == html_content.elements[ei] IN
    /\ MatchesSimple(nav_selectors[si], el)
    /\ \E k \in DOMAIN el.anchors :
          /\ el.anchors[k].href # <<>>
          /\ Strip(el.anchors[k].text) # <<>>
          /\ IsValidInternalUrl(extractor, UrlJoin(page_url, el.anchors[k].href))

\* C5: primary_navigation is the candidate of the earliest selector of the
\* 19-entry priority list that yields an element with a valid link, the first
\* such element in document order; it is None when there is no candidate.
C5_PrimaryIsFirstQualifying ==
    pc = "extracted" =>
        LET Q == {q \in (DOMAIN nav_selectors) \X (DOMAIN html_content.elements) :
                     Qualifies(q[1], q[2])}
            primary == navigation_data.primary_navigation
        IN /\ Len(nav_selectors) = 19
           /\ IF Q = {} THEN primary = NoneDict
              ELSE LET first == CHOOSE q \in Q : \A r \in Q :
                                   q[1] < r[1] \/ (q[1] = r[1] /\ q[2] <= r[2])
                   IN /\ primary # NoneDict
                      /\ primary.selector = nav_selectors[first[1]]
                      /\ primary.html = html_content.elements[first[2]]
                      /\ primary.links # <<>>

\* C5 witness: a .menu element comes first in the document, a
\* nav[role="navigation"] element second, both with valid links that differ;
\* the primary navigation is the second element, by the first selector.
C5_Witness ==
    /\ pc = "extracted"
    /\ Len(html_content.elements) = 2
    /\ html_content.elements[1] = NavElement("div", <<"menu">>, "", MenuLinks)
    /\ html_content.elements[2] = NavElement("nav", <<>>, "navigation", DocsLinks)
    /\ page_url = GuideUrl
    /\ navigation_data.primary_navigation.selector = nav_selectors[1]
    /\ navigation_data.primary_navigation.html = html_content.elements[2]
    /\ Len(navigation_data.found_navigations) = 4

(***************************************************************************)
(* Claims about enhance_navigation_extraction.                             *)
(***************************************************************************)
\* all_nav_links of the i-th page of the result
PageLinks(i) ==
    LET nav == enhanced_results.page_navigations[i].enhanced_navigation
    IN IF nav = NoneDict THEN <<>> ELSE nav.all_nav_links

\* C9: unique_navigation_links never holds two entries with one text|url key;
\* every key of some page's all_nav_links is there once, carried by the entry
\* of the earliest page that has it, and no other key is there.
C9_SiteWideDedup ==
    pc = "enhanced" =>
        LET u == enhanced_results.unique_navigation_links
            pages == DOMAIN enhanced_results.page_navigations
        IN /\ \A i, j \in DOMAIN u : i # j => TextUrlKey(u[i]) # TextUrlKey(u[j])
           /\ \A p \in pages : \A k \in KeysOf(PageLinks(p)) :
                 (\A q \in pages : q < p => k \notin KeysOf(PageLinks(q))) =>
                     \E j \in DOMAIN u : u[j] = PageLinks(p)[FirstIndex(PageLinks(p), k)]
           /\ \A j \in DOMAIN u : \E p \in pages : TextUrlKey(u[j]) \in KeysOf(PageLinks(p))

\* C9 witness: the link a -> /docs/ is on the first page at level 1 and on the
\* second at level 0; the site list has it once, as the first page has it.
C9_Witness ==
    /\ pc = "enhanced"
    /\ Len(crawl_results) = 3
    /\ enhanced_results.pages_with_navigation = 3
    /\ PageLinks(1)[1].level = 1
    /\ PageLinks(2)[1].level = 0
    /\ TextUrlKey(PageLinks(1)[1]) = TextUrlKey(PageLinks(2)[1])
    /\ TextUrlKey(PageLinks(1)[1]) \in KeysOf(PageLinks(3))
    /\ enhanced_results.unique_navigation_links[1] = PageLinks(1)[1]
    /\ Cardinality({j \in DOMAIN enhanced_results.unique_navigation_links :
           TextUrlKey(enhanced_results.unique_navigation_links[j])
               = TextUrlKey(PageLinks(1)[1])}) = 1

(***************************************************************************)
(* Claims about filter_html.                                               *)
(***************************************************************************)
\* the subtree of node n of a document as a block
BlockAt(html, n) ==
    [j \in 1..Cardinality(Subtree(html, n)) |->
        [html[n + j - 1] EXCEPT !.parent = IF j = 1 THEN 0 ELSE @ - n + 1]]

ContainsBlock(html, block) ==
    \E n \in DOMAIN html : html[n].kind = "tag" /\ BlockAt(html, n) = block

HasElement(html, name) == \E n \in DOMAIN html : html[n].kind = "tag" /\ html[n].name = name

HasClass(html, class) ==
    \E n \in DOMAIN html : html[n].kind = "tag" /\ class \in Range(html[n].class)

\* the end-to-end input, filtered with exactly the rules footer and ads
EndToEndCase ==
    /\ html_content = Document(EndToEndBlocks)
    /\ content_filter.enabled_filters = <<"footer", "ads">>
    /\ content_filter.custom_selectors = <<>>
    /\ content_filter.custom_keywords = <<>>

\* C2 as stated: on the end-to-end input with the rules footer and ads,
\* filter_html returns HTML that holds the header and main blocks unchanged and
\* neither the footer nor the .ad div.
C2_EndToEndKeepsHeader ==
    (pc = "html_filtered" /\ EndToEndCase) =>
        /\ ContainsBlock(filtered_html, HeaderBlock)
        /\ ContainsBlock(filtered_html, MainBlock)
        /\ ~HasElement(filtered_html, "footer")
        /\ ~HasClass(filtered_html, "ad")

\* C2 as amended: on the end-to-end input with the rules footer and ads,
\* filter_html returns HTML that holds the main block unchanged and neither
\* the footer nor the .ad div, nor the header: the keyword AD of the rule ads
\* is found in its text Head.
C2_EndToEnd ==
    (pc = "html_filtered" /\ EndToEndCase) =>
        /\ ~HasElement(filtered_html, "header")
        /\ ContainsBlock(filtered_html, MainBlock)
        /\ ~HasElement(filtered_html, "footer")
        /\ ~HasClass(filtered_html, "ad")

\* C2 witness: the end-to-end input has been filtered; main and the two line
\* breaks are what is left, three elements were removed.
C2_Witness ==
    /\ pc = "html_filtered"
    /\ EndToEndCase
    /\ filtered_html = Document(<<MainBlock, NewlineBlock, NewlineBlock>>)
    /\ removed_count = 3

\* filter_html with no keyword compiled is the selector pass and str(soup)
SelectorPassOnly == content_filter.compiled_keywords = <<>>

NoSelectorMatches(html, selectors) ==
    \A i \in DOMAIN selectors :
        SelectorRaises(selectors[i]) \/ Select(html, DOMAIN html, selectors[i]) = {}

\* no selector whose match depends on the siblings of the element
NoStructuralSelector(selectors) ==
    \A i \in DOMAIN selectors : selectors[i].pseudo # "first-child"

\* C3 as stated: for every document and every compiled selector set S, the
\* selector pass on the output of a selector pass with S removes zero
\* elements: after one pass no element matches a selector of S.
C3_SelectorPassIdempotentForAll ==
    (pc = "html_refiltered" /\ SelectorPassOnly) =>
        /\ refiltered.removed_count = 0
        /\ NoSelectorMatches(filtered_html, content_filter.compiled_selectors)

\* C3 as amended: for every document and every compiled selector set S that
\* holds no structural selector (one whose match depends on the siblings of
\* the element, such as :first-child), the selector pass on the output of a
\* selector pass with S removes zero elements: after one pass no element
\* matches a selector of S.
C3_SelectorPassIdempotent ==
    (/\ pc = "html_refiltered"
     /\ SelectorPassOnly
     /\ NoStructuralSelector(content_filter.compiled_selectors)) =>
        /\ refiltered.removed_count = 0
        /\ NoSelectorMatches(filtered_html, content_filter.compiled_selectors)

\* C3 witness: a first selector pass removed two elements and left others,
\* the second pass removed none.
C3_Witness ==
    /\ pc = "html_refiltered"
    /\ SelectorPassOnly
    /\ NoStructuralSelector(content_filter.compiled_selectors)
    /\ removed_count = 2
    /\ \E n \in DOMAIN filtered_html : filtered_html[n].kind = "tag"
    /\ refiltered.removed_count = 0
    /\ refiltered.filtered_html = filtered_html

\* node n of the input is in the string filter_html returned
InReturned(n) == soup.raised \/ n \in soup.alive

\* the trimmed visible text of node n in the tree of the attached nodes
TrimmedText(alive, n) == Strip(GetText(html_content, alive, n))

\* keyword k occurs in the class names or the id of element p: rule (b) of the
\* removal policy, which looks at no length
InClassOrId(p, k) ==
    \/ ContainsIgnoringCase(JoinNames(html_content[p].class), k)
    \/ ContainsIgnoringCase(Chars(html_content[p].id), k)

\* C6: in the keyword pass an element whose trimmed visible text has length
\* >= 200 and contains a keyword is not removed for it, and an element whose
\* trimmed visible text has length < 200 and contains a keyword, being the
\* parent of the matching text node, is removed: it is not in the HTML that
\* filter_html returns.  The first half is read of the elements that do not
\* have the keyword in their class names or id.
C6_ElementLengthGate ==
    pc = "html_filtered" =>
        /\ \A i \in DOMAIN soup.decisions :
              LET d == soup.decisions[i] IN
              (/\ html_content[d.parent].kind = "tag"
               /\ StrLen(TrimmedText(d.alive, d.parent)) >= 200
               /\ ContainsIgnoringCase(TrimmedText(d.alive, d.parent), d.keyword)
               /\ ~InClassOrId(d.parent, d.keyword)) =>
                  ~d.remove
        /\ \A k \in Range(content_filter.compiled_keywords) :
              \A t \in soup.after_selectors :
                  LET p == html_content[t].parent IN
                  (/\ html_content[t].kind = "text"
                   /\ ContainsIgnoringCase(html_content[t].text, k)
                   /\ html_content[p].kind = "tag"
                   /\ StrLen(TrimmedText(soup.after_selectors, p)) < 200) =>
                      ~InReturned(p)

\* conditions (a) and (b) for element p and keyword k
RemovalPolicy(alive, p, k) ==
    \/ /\ StrLen(TrimmedText(alive, p)) < 200
       /\ ContainsIgnoringCase(TrimmedText(alive, p), k)
    \/ InClassOrId(p, k)

\* C8: for each keyword k and each text node that matches k, the nearest
\* element ancestor is removed if and only if (a) its visible text is shorter
\* than 200 characters and contains k or (b) k occurs in its class names or
\* its id; the keyword pass removes no element but such ancestors and their
\* descendants.  (a) and (b) are read in the tree as it is when the text node
\* is looked at.
C8_KeywordRemovalPolicy ==
    pc = "html_filtered" =>
        LET ds == soup.decisions
            OfElement == {i \in DOMAIN ds : html_content[ds[i].parent].kind = "tag"}
            Policy(i) == RemovalPolicy(ds[i].alive, ds[i].parent, ds[i].keyword)
        IN /\ \A i \in OfElement :
                 /\ Policy(i) => ~InReturned(ds[i].parent)
                 /\ ~Policy(i) => ~ds[i].remove
           /\ \A k \in Range(content_filter.compiled_keywords) :
                 \A t \in soup.after_selectors :
                     (/\ html_content[t].kind = "text"
                      /\ ContainsIgnoringCase(html_content[t].text, k)
                      /\ html_content[html_content[t].parent].kind = "tag") =>
                         \/ ~InReturned(html_content[t].parent)
                         \/ \E i \in OfElement : ds[i].keyword = k /\ ds[i].element = t
           /\ \A n \in soup.after_selectors :
                 (html_content[n].kind = "tag" /\ ~InReturned(n)) =>
                     \E i \in OfElement :
                         Policy(i) /\ InSubtree(html_content, ds[i].parent, n)
(***************************************************************************)
(* Claims about the links of a page.                                       *)
(***************************************************************************)
\* the places (candidate, link) of the links of found_navigations with key k
PlacesOfKey(found, k) ==
    UNION {{<<n, m>> : m \in {m \in DOMAIN found[n].links : TextUrlKey(found[n].links[m]) = k}} :
              n \in DOMAIN found}

\* C11: all_nav_links of a page holds no two entries with one text|url key,
\* its keys are the keys of the links of the candidates in found_navigations,
\* and each entry is the first link of its key in candidate scan order; also
\* when one element is matched by several selectors.
C11_PageLinksDeduplicated ==
    pc = "extracted" =>
        LET all == navigation_data.all_nav_links
            found == navigation_data.found_navigations
        IN /\ \A i, j \in DOMAIN all : i # j => TextUrlKey(all[i]) # TextUrlKey(all[j])
           /\ KeysOf(all) = UNION {KeysOf(found[n].links) : n \in DOMAIN found}
           /\ \A i \in DOMAIN all :
                 LET places == PlacesOfKey(found, TextUrlKey(all[i]))
                     first == CHOOSE pl \in places : \A q \in places :
                                  pl[1] < q[1] \/ (pl[1] = q[1] /\ pl[2] <= q[2])
                 IN all[i] = found[first[1]].links[first[2]]

\* C11 witness: one nav element with role navigation is matched by three
\* selectors and gives three candidates with the same link; all_nav_links has
\* the link once.
C11_Witness ==
    /\ pc = "extracted"
    /\ Len(html_content.elements) = 1
    /\ Len(navigation_data.found_navigations) = 3
    /\ \A n \in 1..3 : navigation_data.found_navigations[n].html = html_content.elements[1]
    /\ Len(navigation_data.found_navigations[1].links) = 1
    /\ Len(navigation_data.all_nav_links) = 1
\* the anchors of the candidate whose links are valid, in document order
LinkedAnchors(cand) ==
    LET RECURSIVE Pick(_)
        Pick(i) ==
            IF i > Len(cand.html.anchors) THEN <<>>
            ELSE (IF \E m \in DOMAIN cand.links :
                         /\ cand.links[m].href = cand.html.anchors[i].href
                         /\ cand.links[m].text = Strip(cand.html.anchors[i].text)
                  THEN <<cand.html.anchors[i]>> ELSE <<>>) \o Pick(i + 1)
    IN Pick(1)

\* the ancestors strictly between the anchor and the navigation root that are
\* ul, ol, li or div with a class name holding menu in any letter case
MenuAncestors(a) ==
    {i \in DOMAIN a.wrap :
        /\ a.wrap[i].name \in {"ul", "ol", "li", "div"}
        /\ \E c \in Range(a.wrap[i].class) : ContainsIgnoringCase(Chars(c), Chars("menu"))}

\* C12: the level of a link is the number of ancestors strictly between its
\* anchor and the navigation root that are ul, ol, li or div with a class
\* holding menu; it is at least 0 and at most the anchor's depth below the
\* root, and 0 for a direct child of the root.
C12_LinkLevel ==
    pc = "extracted" =>
        \A n \in DOMAIN navigation_data.found_navigations :
            LET cand == navigation_data.found_navigations[n]
                anchors == LinkedAnchors(cand)
            IN /\ Len(anchors) = Len(cand.links)
               /\ \A m \in DOMAIN cand.links :
                     /\ cand.links[m].level = Cardinality(MenuAncestors(anchors[m]))
                     /\ cand.links[m].level \in 0..Len(anchors[m].wrap)
                     /\ anchors[m].wrap = <<>> => cand.links[m].level = 0

\* C12 witness: a candidate with a link of level 2 below three ancestors, one
\* of them a span of class menu, and a link of level 0 below a div of the
\* classes me and nu.
C12_Witness ==
    /\ pc = "extracted"
    /\ \E n \in DOMAIN navigation_data.found_navigations :
          LET cand == navigation_data.found_navigations[n]
          IN /\ cand.html.anchors = NestedLinks
             /\ Len(cand.links) = 2
             /\ cand.links[1].level = 2
             /\ cand.links[2].level = 0
(***************************************************************************)
(* Claims about the compiled rule lists.                                   *)
(***************************************************************************)
\* the enabled names that exist in the catalog
KnownRules(enabled) == Range(enabled) \cap DOMAIN PRESET_FILTERS

\* other lists of the same enabled names: every order of them, the list
\* twice, and the list without the unknown names
Reorderings(enabled) ==
    Perms(Range(enabled)) \cup Perms(KnownRules(enabled)) \cup {enabled \o enabled}

NoDuplicates(s) == \A i, j \in DOMAIN s : i # j => s[i] # s[j]

\* C13: compiled_selectors and compiled_keywords hold no element twice and
\* are, as sets, the selectors and keywords of the enabled rules of the
\* catalog together with the custom ones; unknown names add nothing, and the
\* order and repetition of the enabled names do not change the sets.
C13_CompiledRuleSets ==
    pc \in {"text", "text_filtered"} =>
        LET cf == content_filter IN
        /\ NoDuplicates(cf.compiled_selectors)
        /\ NoDuplicates(cf.compiled_keywords)
        /\ Range(cf.compiled_selectors) =
               UNION {PRESET_FILTERS[n].selectors : n \in KnownRules(cf.enabled_filters)}
                   \cup Range(cf.custom_selectors)
        /\ Range(cf.compiled_keywords) =
               UNION {PRESET_FILTERS[n].keywords : n \in KnownRules(cf.enabled_filters)}
                   \cup Range(cf.custom_keywords)
        /\ \A e \in Reorderings(cf.enabled_filters) :
              /\ CompileSelectors(e, cf.custom_selectors) = Range(cf.compiled_selectors)
              /\ CompileKeywords(e, cf.custom_keywords) = Range(cf.compiled_keywords)

\* C13 witness: a rule enabled twice next to an unknown name, a custom
\* keyword given twice and one that a rule of the catalog has as well.
C13_Witness ==
    /\ pc = "text"
    /\ content_filter.enabled_filters = <<"no-such-rule", "ads", "social", "ads">>
    /\ Len(content_filter.custom_keywords) = 3
    /\ Len(content_filter.custom_selectors) = 3
    /\ Range(content_filter.custom_keywords) \cap PRESET_FILTERS["social"].keywords # {}
    /\ Len(content_filter.compiled_keywords) <
           Cardinality(PRESET_FILTERS["ads"].keywords) + Cardinality(PRESET_FILTERS["social"].keywords) + 2
    /\ Len(content_filter.compiled_selectors) >
           Cardinality(PRESET_FILTERS["ads"].selectors \cup PRESET_FILTERS["social"].selectors)
(***************************************************************************)
(* Claims about failures inside filter_html.                               *)
(***************************************************************************)
\* the filter without the selectors whose evaluation raises
WithoutFailingSelectors(self) ==
    [self EXCEPT !.compiled_selectors = SelectSeq(@, LAMBDA s : ~SelectorRaises(s))]

\* C14: a selector whose evaluation raises is skipped and the others are
\* applied: filter_html returns, and counts, what it does with the failing
\* selectors deleted from the rule set.
C14_FailingSelectorSkipped ==
    pc \in {"html_filtered", "html_refiltered"} =>
        LET without == FilterHtml(WithoutFailingSelectors(content_filter), html_content,
                                  decomposed)
        IN /\ filtered_html = without.filtered_html
           /\ removed_count = without.removed_count
           /\ soup.after_selectors = without.soup.after_selectors

\* C14 witness: the first compiled selector raises, a later one removes an
\* element, and the filtered document is returned.
C14_Witness ==
    /\ pc = "html_filtered"
    /\ Len(content_filter.compiled_selectors) = 3
    /\ SelectorRaises(content_filter.compiled_selectors[1])
    /\ removed_count > 0
    /\ ~soup.raised
    /\ filtered_html # html_content
\* a compiled keyword that is no regular expression, met by the keyword pass
KeywordPassFails ==
    /\ Len(html_content) > 1
    /\ \E k \in Range(content_filter.compiled_keywords) : "(" \in Range(k)

\* C15: filter_html returns for every input, and when a step inside it
\* fails (a keyword that does not compile, a detached node met in the keyword
\* pass, the serialisation) it returns the input string as it was given.
C15_FailureReturnsInput ==
    pc \in {"html_filtered", "html_refiltered"} =>
        /\ soup.raised => filtered_html = html_content
        /\ KeywordPassFails => filtered_html = html_content
        /\ Len(html_content) = 1 => filtered_html = html_content

\* C15 witness: the selector pass has removed an element, the keyword pass
\* fails, and the input is returned with that element.
C15_Witness ==
    /\ pc = "html_filtered"
    /\ soup.raised
    /\ KeywordPassFails
    /\ soup.after_selectors # DOMAIN html_content
    /\ filtered_html = html_content
(***************************************************************************)
(* Claims about failures inside the navigation extractor.                  *)
(***************************************************************************)
\* the extraction from the i-th crawl result alone raises
PageFails(i) ==
    ExtractNavigationFromCrawlResult(NewExtractor(SiteBaseUrl), crawl_results[i]) = Raised

\* the links the i-th crawl result gives when extracted alone
LinksOfPageAlone(i) ==
    LET nav == ExtractNavigationFromCrawlResult(NewExtractor(SiteBaseUrl),
                                                crawl_results[i]).enhanced_navigation
    IN IF nav = NoneDict THEN <<>> ELSE nav.all_nav_links

\* C16: a failure while extracting the navigation of one page is not
\* propagated: enhance_navigation_extraction returns a site result in which
\* that page has an empty navigation result and which holds the links of all
\* other pages.
C16_PageFailureContained ==
    pc \in {"enhanced", "site_raised"} =>
        /\ pc = "enhanced"
        /\ Len(enhanced_results.page_navigations) = Len(crawl_results)
        /\ \A i \in DOMAIN crawl_results :
              IF PageFails(i) THEN PageLinks(i) = <<>>
              ELSE KeysOf(LinksOfPageAlone(i))
                       \subseteq KeysOf(enhanced_results.unique_navigation_links)

\* C17: an anchor whose URL fails the check of the extractor, or whose href
\* cannot be resolved, gives no link entry and does not abort the extraction:
\* every other anchor of every matched element has its entry.
C17_InvalidLinkDropped ==
    pc \in {"extracted", "page_raised"} =>
        /\ pc = "extracted"
        /\ \A si \in DOMAIN nav_selectors, ei \in DOMAIN html_content.elements :
              MatchesSimple(nav_selectors[si], html_content.elements[ei]) =>
                  \A k \in DOMAIN html_content.elements[ei].anchors :
                      LET a == html_content.elements[ei].anchors[k] IN
                      (a.href # <<>> /\ Strip(a.text) # <<>>) =>
                          (HasLinkEntry(si, ei, k) <=>
                              /\ ~UrlJoinRaises(page_url, a.href)
                              /\ IsValidInternalUrl(extractor, UrlJoin(page_url, a.href)))
(***************************************************************************)
(* Claims about calls that share the filter and the extractor.             *)
(***************************************************************************)
\* what the call returns when no other call runs
ResultAlone(call) ==
    CASE call.op = "filter_html" ->
            FilterHtml(content_filter, call.arg, decomposed).filtered_html
      [] call.op = "filter_text" -> FilterText(content_filter, call.arg)
      [] call.op = "extract_navigation_from_html" ->
            ExtractNavigationFromHtml(extractor, call.arg, call.url)

\* C18: the calls leave the compiled lists of the shared filter and the
\* domain of the shared extractor as they were built, and every call, however
\* its steps interleave with those of the other calls, returns what it
\* returns when it runs alone.
C18_CallsShareNoMutableState ==
    pc = "shared" =>
        /\ content_filter \in SharedFilters
        /\ extractor = NewExtractor(SiteBaseUrl)
        /\ \A t \in DOMAIN calls :
              calls[t].step = "returned" => calls[t].result = ResultAlone(calls[t])

\* C18 witness: the second call of filter_html took its first step while the
\* first was between its first step and its return; both have returned a
\* filtered document, each of its own page.
C18_Witness ==
    /\ pc = "shared"
    /\ calls[1].op = "filter_html" /\ calls[2].op = "filter_html"
    /\ calls[1].arg # calls[2].arg
    /\ calls[1].concurrent = {} /\ calls[2].concurrent = {1}
    /\ calls[1].step = "returned" /\ calls[2].step = "returned"
    /\ calls[1].result # calls[1].arg /\ calls[2].result # calls[2].arg
(***************************************************************************)
(* Claims about the order of the pages.                                    *)
(***************************************************************************)
\* the crawl results in the order p
Reordered(p) == [i \in DOMAIN crawl_results |-> crawl_results[p[i]]]

\* what enhance_navigation_extraction returns for the crawl results in order p
ResultInOrder(p) == EnhanceNavigationExtraction(Reordered(p), SiteBaseUrl)

\* C19: for every other order of the same crawl results,
\* enhance_navigation_extraction returns the same set of text|url keys in
\* unique_navigation_links, the same total_pages and the same
\* pages_with_navigation.
C19_PageOrderOnlyBreaksTies ==
    pc = "enhanced" =>
        \A p \in Perms(DOMAIN crawl_results) :
            LET other == ResultInOrder(p) IN
            /\ other # Raised
            /\ KeysOf(other.unique_navigation_links)
                   = KeysOf(enhanced_results.unique_navigation_links)
            /\ other.total_pages = enhanced_results.total_pages
            /\ other.pages_with_navigation = enhanced_results.pages_with_navigation

\* C19 witness: three pages, one of them without navigation links; another
\* order of them gives another list of unique links, with another level for
\* a link, and the same keys and counts.
C19_Witness ==
    /\ pc = "enhanced"
    /\ Len(crawl_results) = 3
    /\ enhanced_results.pages_with_navigation = 2
    /\ PageLinks(1) = <<>>
    /\ \E p \in Perms(DOMAIN crawl_results) :
          LET other == ResultInOrder(p) IN
          /\ other.unique_navigation_links # enhanced_results.unique_navigation_links
          /\ \E i \in DOMAIN other.unique_navigation_links,
                j \in DOMAIN enhanced_results.unique_navigation_links :
                /\ TextUrlKey(other.unique_navigation_links[i])
                       = TextUrlKey(enhanced_results.unique_navigation_links[j])
                /\ other.unique_navigation_links[i].level
                       # enhanced_results.unique_navigation_links[j].level
(***************************************************************************)
(* Claims about the detached nodes of the keyword pass.                    *)
(***************************************************************************)
\* C20: the keyword pass detaches an element once and counts it once, also
\* when several text nodes or several keywords lead to it or into a subtree
\* already removed; looking again at a detached node does not fail and leaves
\* the tree and the count as they are, so that filter_html returns and counts
\* what it does when such a node is passed over.
C20_DetachedOnceAndRecheckNoOp ==
    pc = "html_filtered" =>
        LET ds == soup.decisions
            Removing == {i \in DOMAIN ds : ds[i].remove}
            by_selectors == SelectorLoop(html_content, content_filter.compiled_selectors,
                                         DOMAIN html_content, 0).removed_count
            passed_over == FilterHtml(content_filter, html_content, "inert")
        IN /\ \A i, j \in Removing :
                 i < j => ~InSubtree(html_content, ds[i].parent, ds[j].parent)
           /\ removed_count = by_selectors + Cardinality({ds[i].parent : i \in Removing})
           /\ filtered_html = passed_over.filtered_html
           /\ removed_count = passed_over.removed_count

(***************************************************************************)
(* Claims about the candidates of a page.                                  *)
(***************************************************************************)
\* the elements of the page that a navigation selector matches and that have
\* no valid link
MatchedWithoutLinks ==
    {ei \in DOMAIN html_content.elements :
        /\ \E si \in DOMAIN nav_selectors :
              MatchesSimple(nav_selectors[si], html_content.elements[ei])
        /\ \A si \in DOMAIN nav_selectors : ~Qualifies(si, ei)}

\* C21: every candidate of found_navigations has a valid link; an element
\* matched by a navigation selector that has no valid link is no candidate
\* and is not the primary navigation; primary_navigation is None exactly
\* when found_navigations is empty.
C21_CandidatesHaveLinks ==
    pc = "extracted" =>
        LET found == navigation_data.found_navigations
            primary == navigation_data.primary_navigation
        IN /\ \A n \in DOMAIN found : found[n].links # <<>>
           /\ \A n \in DOMAIN found :
                 \E si \in DOMAIN nav_selectors, ei \in DOMAIN html_content.elements :
                    /\ Qualifies(si, ei)
                    /\ found[n].selector = nav_selectors[si]
                    /\ found[n].html = html_content.elements[ei]
           /\ \A ei \in MatchedWithoutLinks :
                 /\ \A n \in DOMAIN found : found[n].html # html_content.elements[ei]
                 /\ primary # NoneDict => primary.html # html_content.elements[ei]
           /\ (primary = NoneDict) <=> (found = <<>>)
           /\ primary # NoneDict => primary = found[1]

\* C21 witness: the first element of the page is matched by a selector and
\* has two links, neither valid; the second element has a valid link and is
\* the only element among the candidates.
C21_Witness ==
    /\ pc = "extracted"
    /\ Len(html_content.elements) = 2
    /\ html_content.elements[1] = NavElement("nav", <<>>, "navigation", OutsideLinks)
    /\ 1 \in MatchedWithoutLinks
    /\ navigation_data.found_navigations # <<>>
    /\ \A n \in DOMAIN navigation_data.found_navigations :
          navigation_data.found_navigations[n].html = html_content.elements[2]
    /\ navigation_data.primary_navigation.html = html_content.elements[2]

(***************************************************************************)
(* Claims about the counters of enhance_navigation_extraction.             *)
(***************************************************************************)
\* the anchors of the page at url that have a valid internal link and sit in
\* an element a navigation selector matches, as pairs of element and anchor
ValidNavAnchors(html, url) ==
    IF html.empty THEN {}
    ELSE {p \in (DOMAIN html.elements) \X (1..MaxLinks) :
            LET el == html.elements[p[1]] IN
            /\ p[2] \in DOMAIN el.anchors
            /\ \E si \in DOMAIN nav_selectors : MatchesSimple(nav_selectors[si], el)
            /\ el.anchors[p[2]].href # <<>>
            /\ Strip(el.anchors[p[2]].text) # <<>>
            /\ IsValidInternalUrl(NewExtractor(SiteBaseUrl),
                                  UrlJoin(url, el.anchors[p[2]].href))}

\* input page i has cleaned HTML in which a navigation selector matches an
\* element with a valid link
PageHasValidLink(i) ==
    ValidNavAnchors(crawl_results[i].cleaned_html, crawl_results[i].url) # {}

\* C22: total_pages is the number of input pages, page_navigations has one
\* entry per input page in input order, pages_with_navigation is the number
\* of input pages whose all_nav_links is not empty, so it lies between 0 and
\* total_pages, and when it is 0 unique_navigation_links is empty.
C22_PageCounters ==
    pc = "enhanced" =>
        LET r == enhanced_results
            with_links == {i \in DOMAIN r.page_navigations : PageLinks(i) # <<>>}
        IN /\ r.total_pages = Len(crawl_results)
           /\ Len(r.page_navigations) = Len(crawl_results)
           /\ \A i \in DOMAIN crawl_results :
                 /\ r.page_navigations[i].url = crawl_results[i].url
                 /\ (r.page_navigations[i].enhanced_navigation = NoneDict)
                       <=> crawl_results[i].cleaned_html.empty
                 /\ (PageLinks(i) # <<>>) <=> PageHasValidLink(i)
           /\ r.pages_with_navigation = Cardinality(with_links)
           /\ r.pages_with_navigation \in 0..r.total_pages
           /\ r.pages_with_navigation = 0 => r.unique_navigation_links = <<>>

\* C22 witness: three input pages, one without cleaned HTML, one whose only
\* navigation element has no valid link, one with a valid link: one page is
\* counted.
C22_Witness ==
    /\ pc = "enhanced"
    /\ Len(crawl_results) = 3
    /\ \E i, j, k \in 1..3 :
          /\ crawl_results[i].cleaned_html.empty
          /\ ~crawl_results[j].cleaned_html.empty
          /\ enhanced_results.page_navigations[j].enhanced_navigation.all_nav_links = <<>>
          /\ PageLinks(k) # <<>>
    /\ enhanced_results.total_pages = 3
    /\ enhanced_results.pages_with_navigation = 1
    /\ enhanced_results.unique_navigation_links # <<>>

(***************************************************************************)
(* Claims about the duplicates of _deduplicate_links.                      *)
(***************************************************************************)
\* the pair of fields by which the claim tells entries apart
TextUrlPair(link) == <<link.text, link.url>>

\* C23: _deduplicate_links takes two entries for duplicates exactly when
\* their texts are equal and their urls are equal, also for texts and urls
\* that hold the character "|": entries of one pair are merged, and entries
\* that differ in text or in url are never merged, so every pair of the input
\* is a pair of the output.
C23_DuplicatesAreEqualPairs ==
    pc \in {"deduplicated", "structured"} =>
        /\ \A i, j \in DOMAIN unique_links :
              i # j => TextUrlPair(unique_links[i]) # TextUrlPair(unique_links[j])
        /\ {TextUrlPair(links[i]) : i \in DOMAIN links}
              = {TextUrlPair(unique_links[j]) : j \in DOMAIN unique_links}

(***************************************************************************)
(* Claims about the crawler pipeline.                                      *)
(***************************************************************************)
\* the pages the crawler stored whose cleaned HTML has a navigation element
\* with a valid internal link
StoredWithNavigation ==
    {i \in DOMAIN crawler.crawled_content :
        ValidNavAnchors(crawler.crawled_content[i].value.cleaned_html,
                        crawler.crawled_content[i].key) # {}}

\* C24: in the pipeline of WebsiteCrawler, every crawled page whose stored
\* cleaned HTML has a navigation element with a valid internal link is
\* handed to extract_navigation_from_html, is counted in
\* pages_with_navigation and has its links in unique_navigation_links.
C24_PipelineExtractsNavigation ==
    pc = "crawled" =>
        LET file == enhanced_navigation_file
            stored == crawler.crawled_content
        IN /\ file # NoneDict
           /\ Len(file.page_navigations) = Len(stored)
           /\ \A i \in StoredWithNavigation :
                 /\ file.page_navigations[i].url = stored[i].key
                 /\ file.page_navigations[i].enhanced_navigation # NoneDict
                 /\ \A p \in ValidNavAnchors(stored[i].value.cleaned_html, stored[i].key) :
                       LET a == stored[i].value.cleaned_html.elements[p[1]].anchors[p[2]]
                       IN \E j \in DOMAIN file.unique_navigation_links :
                             /\ file.unique_navigation_links[j].text = Strip(a.text)
                             /\ file.unique_navigation_links[j].url = UrlJoin(stored[i].key, a.href)
           /\ file.pages_with_navigation = Cardinality(StoredWithNavigation)

(***************************************************************************)
(* Claims about the algebra of _deduplicate_links.                         *)
(***************************************************************************)
\* sub is ls with some entries left out, the others in their order
RECURSIVE IsSubsequence(_, _)
IsSubsequence(sub, ls) ==
    IF sub = <<>> THEN TRUE
    ELSE IF ls = <<>> THEN FALSE
    ELSE IF Head(sub) = Head(ls) THEN IsSubsequence(Tail(sub), Tail(ls))
    ELSE IsSubsequence(sub, Tail(ls))

\* the ways of cutting ls into three lists, empty ones included
CutsOf(ls) == {c \in (0..Len(ls)) \X (0..Len(ls)) : c[1] <= c[2]}

\* C25: the output of _deduplicate_links is its input with entries left out
\* and the order kept; deduplicating the output changes nothing; and for
\* every cut of a list into lists L1, L2, L3, deduplicating the concatenation
\* of the deduplicated lists gives what deduplicating the list gives.
C25_DedupAlgebra ==
    pc \in {"deduplicated", "structured"} =>
        /\ IsSubsequence(unique_links, links)
        /\ DeduplicateLinks(unique_links) = unique_links
        /\ \A c \in CutsOf(links) :
              DeduplicateLinks(DeduplicateLinks(SubSeq(links, 1, c[1]))
                               \o DeduplicateLinks(SubSeq(links, c[1] + 1, c[2]))
                               \o DeduplicateLinks(SubSeq(links, c[2] + 1, Len(links))))
                  = unique_links

\* C25 witness: three entries, the second and the third with the key of the
\* first and another level; a cut after the first leaves the duplicates of
\* the second list for the second deduplication to meet the first entry.
C25_Witness ==
    /\ pc = "deduplicated"
    /\ Len(links) = 3
    /\ TextUrlKey(links[2]) = TextUrlKey(links[1])
    /\ TextUrlKey(links[3]) = TextUrlKey(links[1])
    /\ links[2].level # links[1].level
    /\ unique_links = <<links[1]>>
    /\ DeduplicateLinks(SubSeq(links, 2, 3)) = <<links[2]>>

(***************************************************************************)
(* Claims about filter_html applied to what it returned.                   *)
(***************************************************************************)
\* C26: with keywords compiled, filter_html on what filter_html of the same
\* ContentFilter returned removes no further element: it returns its input,
\* whatever the order of the keywords.
C26_FullFilterIdempotent ==
    (pc = "html_refiltered" /\ content_filter.compiled_keywords # <<>>) =>
        refiltered.filtered_html = filtered_html

\* C27: filter_html returns its input exactly, or the serialisation of the
\* tree after every selector and every keyword has been processed, never a
\* tree in between; when the keyword pass raises, as on a keyword that is no
\* valid pattern, what it returns is the input, without the removals of the
\* selector pass.
C27_AllOrNothing ==
    pc = "html_filtered" =>
        LET ck == content_filter.compiled_keywords
            full == Str(html_content, soup.alive)
        IN /\ filtered_html \in {html_content, full}
           /\ soup.raised => filtered_html = html_content
           /\ (\E i \in DOMAIN ck : ~RegexValid(ck[i])) => filtered_html = html_content
           /\ (~soup.raised /\ Len(html_content) > 1) =>
                 /\ filtered_html = full
                 /\ soup.alive \subseteq soup.after_selectors
                 /\ soup.after_selectors =
                       SelectorLoop(html_content, content_filter.compiled_selectors,
                                    DOMAIN html_content, 0).alive
                 /\ \A i \in DOMAIN ck : \A n \in soup.alive :
                       (html_content[n].kind = "text" /\ RegexSearch(ck[i], html_content[n].text))
                           => \E d \in DOMAIN soup.decisions :
                                 /\ soup.decisions[d].keyword = ck[i]
                                 /\ soup.decisions[d].element = n

\* C27 witness: the selector pass has removed an element, the keyword pass
\* raises on a keyword that is no valid pattern, and the input comes back
\* with the element in it.
C27_Witness ==
    /\ pc = "html_filtered"
    /\ \E i \in DOMAIN content_filter.compiled_keywords :
          ~RegexValid(content_filter.compiled_keywords[i])
    /\ soup.after_selectors # DOMAIN html_content
    /\ soup.raised
    /\ filtered_html = html_content
    /\ filtered_html # Str(html_content, soup.after_selectors)

(***************************************************************************)
(* Claims about CrawlerTask and the worker thread.                         *)
(***************************************************************************)
\* the changes of status the claim allows, a status that stays included
StatusStep(old, new) ==
    \/ new = old
    \/ old = "pending" /\ new \in {"running", "failed"}
    \/ old = "running" /\ new \in {"completed", "failed"}

\* the place of a message in a log, 0 when it is not there
PlaceInLog(log, message) ==
    IF \E i \in DOMAIN log : log[i] = message
    THEN CHOOSE i \in DOMAIN log : log[i] = message ELSE 0

\* the phases are logged once each and in the order discovery, crawl,
\* navigation: a later phase is there only after the earlier ones
PhasesInOrder(log) ==
    /\ \A i, j \in DOMAIN log : i # j => log[i] # log[j]
    /\ PlaceInLog(log, "crawl") # 0 =>
          (0 < PlaceInLog(log, "discover") /\ PlaceInLog(log, "discover") < PlaceInLog(log, "crawl"))
    /\ PlaceInLog(log, "navigation") # 0 =>
          (0 < PlaceInLog(log, "crawl") /\ PlaceInLog(log, "crawl") < PlaceInLog(log, "navigation"))

IsPrefix(seq, ls) == Len(seq) <= Len(ls) /\ SubSeq(ls, 1, Len(seq)) = seq

\* C29: the tasks submitted through start_crawl are run by the one worker
\* one at a time and in the order of their submission: never are two tasks
\* running, a task in the queue or taken from it is in the tasks table, the
\* tasks taken are the first of those submitted and all before the latest
\* have ended; and a task that failed does not stop the worker: every task
\* submitted is taken and run to completed or failed.
C29_SingleWorkerFifo ==
    /\ [](/\ Cardinality({i \in DOMAIN tasks : tasks[i].value.status = "running"}) <= 1
          /\ \A id \in Range(task_queue) \cup Range(executed) :
                \E item \in Range(tasks) : item.key = id
          /\ IsPrefix(executed, submitted)
          /\ task_queue = SubSeq(submitted, Len(executed) + 1, Len(submitted))
          /\ \A k \in DOMAIN executed :
                IF k < Len(executed) \/ worker.task = 0
                THEN TaskOf(executed[k]).status \in {"completed", "failed"}
                ELSE worker.task = executed[k]
          /\ \A i \in DOMAIN tasks :
                tasks[i].value.status = "running" =>
                    (worker.pc = "running" /\ worker.task = tasks[i].key))
    /\ \A id \in 1..MaxTasks :
          (id \in Range(submitted)) ~>
              (id \in Range(executed) /\ TaskOf(id).status \in {"completed", "failed"})

\* C29 witness: two tasks were submitted, the first failed with an exception
\* in run and the worker is running the second.
C29_Witness ==
    /\ Len(submitted) = 2
    /\ executed = submitted
    /\ engine.installed
    /\ TaskOf(executed[1]).status = "failed"
    /\ TaskOf(executed[1]).error = <<"error">>
    /\ TaskOf(executed[2]).status = "running"

\* C30: after crawl_all_content over n URLs every URL has been counted once:
\* the successes and the failures add up to n, in the counters and in the
\* stats of the crawler, also when the processing of a batch raised after
\* some of its results were counted as successes.
C30_EveryUrlCountedOnce ==
    pc = "crawled" =>
        /\ successful_crawls + failed_crawls = Len(urls)
        /\ crawler.stats.total_crawled + crawler.stats.failed_crawls = Len(urls)

=============================================================================
